---- MODULE Spec2Model ----
(***************************************************************************)
(* A model of the video-blocker extension's core:                          *)
(*   - ConcurrencyQueue   (src/unnamed/part_003, core/queue.js)            *)
(*   - VideoUtils         (src/esm-src/utils/video.js)                     *)
(* A job is identified by its creation index: the Set activeJobs holds job *)
(* objects, so a job's identity is the object, not its id string.  The     *)
(* pending list keeps each job with its priority; once a job has been      *)
(* started its priority is never read again and is not kept.               *)
(*                                                                         *)
(* JavaScript runs one callback at a time, so every action is one          *)
(* synchronous run of code between two suspension points.                  *)
(***************************************************************************)
EXTENDS Integers, Sequences, FiniteSets, TLC

\* ------------------------------------------------------------------ bounds
\* jobs enqueued under Spec (fixed capacity)
MaxJobs == 4
\* jobs enqueued under SpecCapacity (priorities and setMaxConcurrent)
MaxCapJobs == 5
\* jobs enqueued under SpecLive and SpecWait (fairness)
MaxLiveJobs == 4
MaxWaitJobs == 4
\* largest frameCount passed to computeMultiFramePHash
MaxFrameCount == 3
\* cells of a grayscale matrix (CANVAS_SIZE * CANVAS_SIZE in the program)
MatCells == 2
\* longest hash string given to hammingDistance and areHashesSimilar
MaxHashLen == 3
\* longest hash string, longest list and largest threshold of the matcher
MaxMatchLen == 2
MaxListLen == 2
MaxThreshold == 2
\* calls of VideoBlocker that use the store and changes made by the options page
MaxStoreOps == 3
\* changes of the stored settings
MaxSettingsChanges == 3
\* positions by which a fingerprint's run of ones is rotated
MaxShift == 2
\* largest coefficient of a transformed matrix
MaxCoef == 2
\* jobs enqueued under SpecScan (scan jobs, check jobs and others together)
MaxScanJobs == 5
\* videos the scanner finds on the page
MaxVideos == 1
\* blockVideo jobs under SpecScan
MaxBlockJobs == 1
\* videos the legacy content script finds and enqueues a task for
MaxLegacyTasks == 4

\* --------------------------------------------------------- program constants
MAX_CONCURRENT == 3
\* MAX_CONCURRENT of the legacy content script
LegacyMaxConcurrent == 3
\* frames of an automatic scan there: Math.max(2, FRAMES_TO_CAPTURE - 1)
LegacyFrames == 2
MaxConcurrentLimit == 10
RetryCount == 2
HAMMING_THRESHOLD == 12
MIN_ONES_ZEROS == 4
CANVAS_SIZE == 32
DCT_BLOCK_SIZE == 8

Max(a, b) == IF a > b THEN a ELSE b
Min(a, b) == IF a < b THEN a ELSE b
Range(s) == {s[i] : i \in 1..Len(s)}

Jobs == 1..Max(Max(Max(MaxJobs, MaxCapJobs), Max(MaxLiveJobs, MaxWaitJobs)), MaxScanJobs)
Videos == 1..MaxVideos
Results == {"result"}
TaskErrors == {"task error"}
ClearReasons == {"Manual clear", "Cleanup"}
\* arguments tried for setMaxConcurrent: below, inside and above [1, 10]
MaxArgs == {-1, 0, 1, 2, MaxConcurrentLimit, MaxConcurrentLimit + 1}

JobTimeoutError == "Job timeout"
ClearedError(reason) == "Queue cleared: " \o reason

VARIABLES
  \* ConcurrencyQueue fields
  activeJobs,     \* Set of jobs
  pendingJobs,    \* Array of jobs [id, priority], head first
  maxConcurrent,
  stats,          \* [totalJobs, completedJobs, failedJobs, queuedJobs]
  \* per job: the promises around it
  created,        \* number of jobs created so far
  exec,           \* executeJob(job): "idle" | "awaiting" (suspended at the race) | "returned"
  task,           \* the promise of job.fn(): [st, v]
  timer,          \* the setTimeout of executeJob: "unset" | "armed" | "fired"
  race,           \* Promise.race([job.fn(), timeoutPromise]): [st, v]
  outcome,        \* the promise enqueue returned: [st, v]
  \* instrumentation
  settles,        \* calls of job.resolve / job.reject per job (2 stands for 2 or more)
  starts,         \* calls of job.fn() per job (2 stands for 2 or more)
  firstEvent,     \* which of the task and the timer settled first: "none" | "task" | "timer"
  \* VideoScanner, the tasks of its jobs and of the check jobs, processedVideos
  scan,
  \* the caller of waitForCompletion
  wfc,            \* [st: "idle" | "polling" | "resolved", rearmed: check() re-armed itself]
  \* VideoUtils
  muted,          \* video.muted
  runs,           \* the calls of computeMultiFramePHash, one record per call
  \* HashUtils and the matcher of VideoBlocker
  HASH_CONFIG,    \* the exported object of constants.js: [HAMMING_THRESHOLD]
  blockedHashes,  \* VideoBlocker.blockedHashes: a Set, kept in insertion order
  hargs,          \* the arguments of a call of a HashUtils function
  hres,           \* what the call returned
  \* chrome.storage.local and StorageManager
  store,          \* the array stored under STORAGE.KEY, each item as its hash
  cache,          \* StorageManager.cache.get('blocked_hashes')
  ops,            \* the calls of VideoBlocker that are using the store, per slot
  events,         \* onChanged events on their way to handleStorageChange (newValue)
  opsStarted,     \* calls of VideoBlocker and changes by the options page so far
  saved,          \* history: the hashes whose save returned true, and the hashes
                  \* whose removal was asked for (by remove or by the options page),
                  \* and whether a removal of all was asked for
  \* the settings
  storedSettings, \* the sensitivity stored under STORAGE.SETTINGS_KEY: <<>> or <<s>>
  appSettings,    \* VideoBlockerApp.settings: [sensitivity]
  settingsEvents, \* onChanged events on their way to the app's listener
  loads,          \* calls of loadSettings awaiting their storage.get
  settingsChanges, \* changes of the stored settings so far
  \* VideoBlocker.blockVideo
  bv,             \* per job of the queue: where its task is, and what it has done
  \* the legacy content script
  legacy          \* [queue, active] and, per task, where it is

qvars == <<activeJobs, pendingJobs, maxConcurrent, stats, created, exec,
           task, timer, race, outcome, settles, starts, firstEvent, scan>>
vvars == <<muted, runs>>
hvars == <<HASH_CONFIG, blockedHashes, hargs, hres>>
\* everything outside the queue, its waiter and the video
svars == <<store, cache, ops, events, opsStarted, saved>>
tvars == <<storedSettings, appSettings, settingsEvents, loads, settingsChanges>>
xvars == <<hvars, svars, tvars, bv, legacy>>
vars == <<qvars, wfc, vvars, xvars>>

Pending == [st |-> "pending", v |-> "none"]
Resolved(v) == [st |-> "resolved", v |-> v]
Rejected(e) == [st |-> "rejected", v |-> e]

\* The queue as one value, so that its methods are functions from queue to queue.
Q == [activeJobs |-> activeJobs, pendingJobs |-> pendingJobs,
      maxConcurrent |-> maxConcurrent, stats |-> stats, created |-> created,
      exec |-> exec, task |-> task, timer |-> timer,
      race |-> race, outcome |-> outcome, settles |-> settles, starts |-> starts,
      firstEvent |-> firstEvent, scan |-> scan]

SetQ(q) ==
  /\ activeJobs' = q.activeJobs
  /\ pendingJobs' = q.pendingJobs
  /\ maxConcurrent' = q.maxConcurrent
  /\ stats' = q.stats
  /\ created' = q.created
  /\ exec' = q.exec
  /\ task' = q.task
  /\ timer' = q.timer
  /\ race' = q.race
  /\ outcome' = q.outcome
  /\ settles' = q.settles
  /\ starts' = q.starts
  /\ firstEvent' = q.firstEvent
  /\ scan' = q.scan

PendingIds(list) == {list[i].id : i \in 1..Len(list)}

\* (a variant of findIndex: a job goes before the waiting jobs of its own priority)
RECURSIVE findIndexUnstable(_, _, _)
findIndexUnstable(list, prio, i) ==
  IF i > Len(list) THEN 0
  ELSE IF list[i].priority <= prio THEN i
  ELSE findIndexUnstable(list, prio, i + 1)

\* (a variant of ReleaseSlot: the delete is forgotten)
ReleaseSlotForgotten(q, job) == q

\* (a variant of HasCapacity: off by one)
HasCapacityOffByOne(q) == Cardinality(q.activeJobs) <= q.maxConcurrent

\* A promise settles once: later resolve / reject calls are ignored.
SettlePromise(p, to) == IF p.st = "pending" THEN to ELSE p

\* job.resolve(v) / job.reject(e)
SettleJob(q, job, to) ==
  [q EXCEPT !.outcome[job] = SettlePromise(q.outcome[job], to),
            !.settles[job] = Min(q.settles[job] + 1, 2)]

\* No scanner: every job of the queue is a plain job, whose task is not looked into.
\*   kind: what a job is: "plain", "scan" (scanAllVideos) or "check" (checkAndBlockVideo)
\*   pc: where its task is: "none", "videos" (a scan awaiting checkAndBlockVideo),
\*       "hashing" (a check awaiting computeMultiFramePHash), "done"
\*   todo: the videos a scan has still to process, the current one first
\*   awaits: the check job a scan is waiting for (0: a promise that is resolved)
\*   hashed: per video, the check jobs that fingerprinted it since processedVideos
\*       was last reset (2 stands for 2 or more); cleaned: cleanup() was called;
\*   overflow: a job beyond MaxScanJobs was asked for
NoScan ==
  [isScanning |-> FALSE, observer |-> FALSE, scanTimeout |-> FALSE,
   initialTimer |-> "unset", processedVideos |-> {},
   kind |-> [j \in Jobs |-> "plain"], pc |-> [j \in Jobs |-> "none"],
   todo |-> [j \in Jobs |-> <<>>], awaits |-> [j \in Jobs |-> 0],
   video |-> [j \in Jobs |-> 0],
   hashed |-> [v \in Videos |-> 0], cleaned |-> FALSE, overflow |-> FALSE]

\* constructor
InitJobs ==
  /\ activeJobs = {}
  /\ pendingJobs = <<>>
  /\ maxConcurrent = MAX_CONCURRENT
  /\ stats = [totalJobs |-> 0, completedJobs |-> 0, failedJobs |-> 0, queuedJobs |-> 0]
  /\ created = 0
  /\ exec = [j \in Jobs |-> "idle"]
  /\ task = [j \in Jobs |-> [st |-> "idle", v |-> "none"]]
  /\ timer = [j \in Jobs |-> "unset"]
  /\ race = [j \in Jobs |-> Pending]
  /\ outcome = [j \in Jobs |-> Pending]
  /\ settles = [j \in Jobs |-> 0]
  /\ starts = [j \in Jobs |-> 0]
  /\ firstEvent = [j \in Jobs |-> "none"]

InitQueue == InitJobs /\ scan = NoScan

\* pendingJobs.findIndex(j => j.priority < priority): 0 stands for -1
RECURSIVE findIndex(_, _, _)
findIndex(list, prio, i) ==
  IF i > Len(list) THEN 0
  ELSE IF list[i].priority < prio THEN i
  ELSE findIndex(list, prio, i + 1)

\* (a variant of InsertJob: the job is put in the list a second time)
InsertJobTwice(list, job) == <<job>> \o list \o <<job>>

\* push (insertIndex = -1) or splice(insertIndex, 0, job)
InsertJob(list, job) ==
  LET at == findIndex(list, job.priority, 1)
  IN IF at = 0 THEN Append(list, job)
     ELSE SubSeq(list, 1, at - 1) \o <<job>> \o SubSeq(list, at, Len(list))

\* this.activeJobs.delete(job)
ReleaseSlot(q, job) == [q EXCEPT !.activeJobs = q.activeJobs \ {job}]

\* processQueue's loop condition on the active set
HasCapacity(q) == Cardinality(q.activeJobs) < q.maxConcurrent

RECURSIVE processQueue(_, _)

\* (a variant of finallyBlock: the slot is released but no waiting job is started)
finallyBlockNoAdmit(q, job, throwing) == ReleaseSlot(q, job)

\* the finally block of executeJob
finallyBlock(q, job, throwing) == processQueue(ReleaseSlot(q, job), throwing)

RECURSIVE enqueue(_, _, _)

\* VideoBlocker.checkAndBlockVideo(video) called by processVideos in the scan
\* job `by`, for the first video of its list: false for a processed video,
\* otherwise a check job is enqueued with priority 1 and its promise awaited
checkAndBlockVideo(q, by, throwing) ==
  LET video == Head(q.scan.todo[by])
      id == q.created + 1
  IN IF video \in q.scan.processedVideos
     THEN [q EXCEPT !.scan.pc[by] = "videos", !.scan.awaits[by] = 0]
     ELSE IF id > MaxScanJobs THEN [q EXCEPT !.scan.overflow = TRUE]
     ELSE enqueue([q EXCEPT !.scan.pc[by] = "videos", !.scan.awaits[by] = id,
                            !.scan.kind[id] = "check", !.scan.video[id] = video],
                  1, throwing)

\* the task of a scan job up to its first await: findAllVideos finds the
\* videos of the page, processVideos calls checkAndBlockVideo for the first
scanBody(q, job, throwing) ==
  checkAndBlockVideo([q EXCEPT !.scan.isScanning = TRUE,
                               !.scan.todo[job] = [i \in 1..MaxVideos |-> i]],
                     job, throwing)

\* the task of a check job up to its await of computeMultiFramePHash(video, 2)
checkBody(q, job) ==
  LET video == q.scan.video[job]
  IN [q EXCEPT !.scan.processedVideos = q.scan.processedVideos \cup {video},
               !.scan.hashed[video] = Min(q.scan.hashed[video] + 1, 2),
               !.scan.pc[job] = "hashing"]

\* job.fn() up to its first await
jobBody(q, job, throwing) ==
  IF q.scan.kind[job] = "scan" THEN scanBody(q, job, throwing)
  ELSE IF q.scan.kind[job] = "check" THEN checkBody(q, job)
  ELSE q

\* executeJob up to its await: the job is added to activeJobs, the timer is set
\* and job.fn() is called.  `throwing` are the jobs whose fn throws synchronously
\* when called: for these the catch and finally blocks run at once.
RECURSIVE executeJob(_, _, _)
executeJob(q, job, throwing) ==
  LET q1 == [q EXCEPT !.activeJobs = q.activeJobs \cup {job},
                      !.timer[job] = "armed",
                      !.starts[job] = Min(q.starts[job] + 1, 2)]
  IN IF job \in throwing
     THEN LET e == CHOOSE x \in TaskErrors : TRUE
              q2 == [q1 EXCEPT !.task[job] = [st |-> "threw", v |-> e],
                               !.firstEvent[job] = "task",
                               !.exec[job] = "returned",
                               !.stats.failedJobs = q1.stats.failedJobs + 1]
              q3 == SettleJob(q2, job, Rejected(e))
          IN finallyBlock(q3, job, throwing)
     ELSE jobBody([q1 EXCEPT !.task[job] = [st |-> "running", v |-> "none"],
                             !.exec[job] = "awaiting"],
                  job, throwing)

\* (a variant of processQueue: one job at most is started by a call)
processQueueOnce(q, throwing) ==
  IF HasCapacity(q) /\ Len(q.pendingJobs) > 0
  THEN LET job == Head(q.pendingJobs)
           q1 == [q EXCEPT !.pendingJobs = Tail(q.pendingJobs),
                           !.stats.queuedJobs = q.stats.queuedJobs - 1]
       IN executeJob(q1, job.id, throwing)
  ELSE q

processQueue(q, throwing) ==
  IF HasCapacity(q) /\ Len(q.pendingJobs) > 0
  THEN LET job == Head(q.pendingJobs)
           q1 == [q EXCEPT !.pendingJobs = Tail(q.pendingJobs),
                           !.stats.queuedJobs = q.stats.queuedJobs - 1]
       IN processQueue(executeJob(q1, job.id, throwing), throwing)
  ELSE q

\* (a variant of enqueue: the job is not counted in totalJobs)
enqueueUncounted(q, prio, throwing) ==
  LET job == [id |-> q.created + 1, priority |-> prio]
      q1 == [q EXCEPT !.created = job.id,
                      !.stats.queuedJobs = q.stats.queuedJobs + 1]
      q2 == [q1 EXCEPT !.pendingJobs = InsertJob(q1.pendingJobs, job)]
  IN processQueue(q2, throwing)

\* enqueue(jobFn, id, priority)
enqueue(q, prio, throwing) ==
  LET job == [id |-> q.created + 1, priority |-> prio]
      q1 == [q EXCEPT !.created = job.id,
                      !.stats.totalJobs = q.stats.totalJobs + 1,
                      !.stats.queuedJobs = q.stats.queuedJobs + 1]
      q2 == [q1 EXCEPT !.pendingJobs = InsertJob(q1.pendingJobs, job)]
  IN processQueue(q2, throwing)

\* the sets of jobs whose fn may throw synchronously when a step starts them
Throwing(mayThrow, ids) == IF mayThrow THEN SUBSET ids ELSE {{}}

Enqueue(limit, prios, mayThrow) ==
  /\ created < limit
  /\ \E prio \in prios :
       \E throwing \in Throwing(mayThrow, PendingIds(pendingJobs) \cup {created + 1}) :
         SetQ(enqueue(Q, prio, throwing))
  /\ UNCHANGED <<wfc, vvars, xvars>>

\* (a variant of SettleRace: a later settlement is taken too, and executeJob is
\* resumed for it)
SettleRaceAgain(q, job, to, by) ==
  [q EXCEPT !.race[job] = to,
            !.exec[job] = "awaiting",
            !.firstEvent[job] = IF q.firstEvent[job] = "none" THEN by ELSE q.firstEvent[job]]

\* Promise.race: the first of its two promises to settle settles it.
SettleRace(q, job, to, by) ==
  [q EXCEPT !.race[job] = SettlePromise(q.race[job], to),
            !.firstEvent[job] = IF q.firstEvent[job] = "none" THEN by ELSE q.firstEvent[job]]

\* the promise of job.fn() resolves with v (also after the job timed out:
\* the task is abandoned, not interrupted)
TaskResolve(job) ==
  /\ task[job].st = "running"
  /\ \E v \in Results :
       SetQ(SettleRace([Q EXCEPT !.task[job] = [st |-> "resolved", v |-> v]],
                       job, Resolved(v), "task"))
  /\ UNCHANGED <<wfc, vvars, xvars>>

\* the promise of job.fn() rejects with e
TaskThrow(job) ==
  /\ task[job].st = "running"
  /\ \E e \in TaskErrors :
       SetQ(SettleRace([Q EXCEPT !.task[job] = [st |-> "threw", v |-> e]],
                       job, Rejected(e), "task"))
  /\ UNCHANGED <<wfc, vvars, xvars>>

\* a continuation of executeJob is waiting in the microtask queue
ContinuationReady(job) == exec[job] = "awaiting" /\ race[job].st # "pending"
\* timer callbacks run only when the microtask queue is empty
MicrotasksDrained == \A j \in Jobs : ~ContinuationReady(j)

\* the setTimeout callback of executeJob: reject(new Error('Job timeout'));
\* the timer is never cleared, so it also fires for a job that has settled
TimerFire(job) ==
  /\ timer[job] = "armed"
  /\ MicrotasksDrained
  /\ SetQ(SettleRace([Q EXCEPT !.timer[job] = "fired"], job,
                     Rejected(JobTimeoutError), "timer"))
  /\ UNCHANGED <<wfc, vvars, xvars>>

\* (a variant of resumeJob: the catch block reports every failure as a timeout)
resumeJobMasked(q, job, throwing) ==
  LET r == q.race[job]
      q1 == IF r.st = "resolved"
            THEN SettleJob([q EXCEPT !.stats.completedJobs = q.stats.completedJobs + 1],
                           job, Resolved(r.v))
            ELSE SettleJob([q EXCEPT !.stats.failedJobs = q.stats.failedJobs + 1],
                           job, Rejected(JobTimeoutError))
  IN finallyBlock([q1 EXCEPT !.exec[job] = "returned"], job, throwing)

\* executeJob after its await: the try or the catch branch, then finally
resumeJob(q, job, throwing) ==
  LET r == q.race[job]
      q1 == IF r.st = "resolved"
            THEN SettleJob([q EXCEPT !.stats.completedJobs = q.stats.completedJobs + 1],
                           job, Resolved(r.v))
            ELSE SettleJob([q EXCEPT !.stats.failedJobs = q.stats.failedJobs + 1],
                           job, Rejected(r.v))
  IN finallyBlock([q1 EXCEPT !.exec[job] = "returned"], job, throwing)

Continue(job, mayThrow) ==
  /\ ContinuationReady(job)
  /\ \E throwing \in Throwing(mayThrow, PendingIds(pendingJobs)) :
       SetQ(resumeJob(Q, job, throwing))
  /\ UNCHANGED <<wfc, vvars, xvars>>

\* pendingJobs.forEach(job => job.reject(...))
RECURSIVE rejectAll(_, _, _)
rejectAll(q, list, e) ==
  IF list = <<>> THEN q
  ELSE rejectAll(SettleJob(q, Head(list).id, Rejected(e)), Tail(list), e)

\* (a variant of clearQueue: the pending list is not emptied)
clearQueueKeepsList(q, reason) ==
  LET clearedCount == Len(q.pendingJobs)
      q1 == rejectAll(q, q.pendingJobs, ClearedError(reason))
  IN [q1 EXCEPT !.stats.queuedJobs = 0,
                !.stats.failedJobs = q1.stats.failedJobs + clearedCount]

\* clearQueue(reason)
clearQueue(q, reason) ==
  LET clearedCount == Len(q.pendingJobs)
      q1 == rejectAll(q, q.pendingJobs, ClearedError(reason))
  IN [q1 EXCEPT !.pendingJobs = <<>>,
                !.stats.queuedJobs = 0,
                !.stats.failedJobs = q1.stats.failedJobs + clearedCount]

ClearQueueWith(reason) ==
  /\ SetQ(clearQueue(Q, reason))
  /\ UNCHANGED <<wfc, vvars, xvars>>

ClearQueue == \E reason \in ClearReasons : ClearQueueWith(reason)

\* (a variant of setMaxConcurrent: processQueue is not called)
setMaxConcurrentNoAdmit(q, max, throwing) ==
  IF max > 0 /\ max <= MaxConcurrentLimit
  THEN [q EXCEPT !.maxConcurrent = max]
  ELSE q

\* setMaxConcurrent(max)
setMaxConcurrent(q, max, throwing) ==
  IF max > 0 /\ max <= MaxConcurrentLimit
  THEN processQueue([q EXCEPT !.maxConcurrent = max], throwing)
  ELSE q

SetMaxConcurrentTo(max) ==
  /\ SetQ(setMaxConcurrent(Q, max, {}))
  /\ UNCHANGED <<wfc, vvars, xvars>>

SetMaxConcurrent == \E max \in MaxArgs : SetMaxConcurrentTo(max)

QueueEmpty == activeJobs = {} /\ pendingJobs = <<>>

\* (a variant of waitCheck: only the pending list is tested)
waitCheckPendingOnly(q) == IF q.pendingJobs = <<>> THEN "resolved" ELSE "polling"

\* the test of waitForCompletion and of its check()
waitCheck(q) == IF q.activeJobs = {} /\ q.pendingJobs = <<>> THEN "resolved" ELSE "polling"

InitWait == wfc = [st |-> "idle", rearmed |-> FALSE]

\* ---------------------------------------------------- legacy content script
LTasks == 1..MaxLegacyTasks
\* queue = [], active = 0; rvfc: the videos of this browser have
\* requestVideoFrameCallback.  Per task: pc is "none" | "queued" | "scheduled"
\* (shifted, fn not yet called) | "readiness" | "frame" | "returned" |
\* "finished"; i is the index of the frame loop; wait is what resolves the
\* promise the task is awaiting: "none" | "event" (loadeddata, error or the
\* 1500 ms timer) | "callback" (requestVideoFrameCallback) | "timer"
NoLegacy ==
  [queue |-> <<>>, active |-> 0, enqueued |-> 0, rvfc |-> FALSE,
   pc |-> [t \in LTasks |-> "none"], i |-> [t \in LTasks |-> 0],
   wait |-> [t \in LTasks |-> "none"]]
InitNoLegacy == legacy = NoLegacy

\* runQueue(): one task is shifted while active < MAX_CONCURRENT; its fn is
\* called from a microtask
runQueue(l) ==
  IF l.active >= LegacyMaxConcurrent \/ l.queue = <<>> THEN l
  ELSE [l EXCEPT !.active = @ + 1, !.queue = Tail(@),
                 !.pc[Head(l.queue)] = "scheduled"]

\* enqueue(task)
legacyEnqueue(l, t) ==
  runQueue([l EXCEPT !.queue = Append(@, t), !.pc[t] = "queued", !.enqueued = t])

\* the promise of the frame loop: requestVideoFrameCallback where the video
\* has it and the call does not throw, otherwise setTimeout(FRAME_DELAY_MS)
frameWait(l, throws) == IF l.rvfc /\ ~throws THEN "callback" ELSE "timer"

\* computeMultiFramePHash after the readiness wait: the first pass of the loop
enterFrameLoop(l, t, throws) ==
  [l EXCEPT !.pc[t] = "frame", !.i[t] = 0, !.wait[t] = frameWait(l, throws)]

\* the frame promise resolved: the frame is drawn, then the next pass of the
\* loop or the rest of the task, which has no further wait
afterFrame(l, t, throws) ==
  IF l.i[t] + 1 < LegacyFrames
  THEN [l EXCEPT !.i[t] = @ + 1, !.wait[t] = frameWait(l, throws)]
  ELSE [l EXCEPT !.i[t] = @ + 1, !.pc[t] = "returned", !.wait[t] = "none"]

LegacyStep(l) ==
  /\ legacy' = l
  /\ UNCHANGED <<qvars, wfc, vvars, hvars, svars, tvars, bv>>

\* the observer or the initial scan finds a video that is not in
\* processedVideos and enqueues a task for it
LegacyEnqueue ==
  /\ legacy.enqueued < MaxLegacyTasks
  /\ LegacyStep(legacyEnqueue(legacy, legacy.enqueued + 1))

\* the microtask of runQueue calls fn(): computeMultiFramePHash runs up to
\* its first await, the readiness wait when video.readyState < 2
LegacyTaskStart(t) ==
  /\ legacy.pc[t] = "scheduled"
  /\ \E ready \in BOOLEAN, throws \in BOOLEAN :
       LegacyStep(IF ready THEN enterFrameLoop(legacy, t, throws)
                  ELSE [legacy EXCEPT !.pc[t] = "readiness", !.wait[t] = "event"])

\* loadeddata or error on the video
ReadinessEvent(t) ==
  /\ legacy.pc[t] = "readiness"
  /\ \E throws \in BOOLEAN : LegacyStep(enterFrameLoop(legacy, t, throws))

\* the 1500 ms timer of the readiness wait
ReadinessTimer(t) ==
  /\ legacy.pc[t] = "readiness"
  /\ \E throws \in BOOLEAN : LegacyStep(enterFrameLoop(legacy, t, throws))

\* the video presents a frame: the callback of requestVideoFrameCallback
FramePresented(t) ==
  /\ legacy.pc[t] = "frame" /\ legacy.wait[t] = "callback"
  /\ \E throws \in BOOLEAN : LegacyStep(afterFrame(legacy, t, throws))

\* the FRAME_DELAY_MS timer
FrameTimer(t) ==
  /\ legacy.pc[t] = "frame" /\ legacy.wait[t] = "timer"
  /\ \E throws \in BOOLEAN : LegacyStep(afterFrame(legacy, t, throws))

\* .finally of runQueue: active--, runQueue()
LegacyFinally(t) ==
  /\ legacy.pc[t] = "returned"
  /\ LegacyStep(runQueue([legacy EXCEPT !.active = @ - 1, !.pc[t] = "finished"]))

\* waitForCompletion(): returns at once on an empty queue, otherwise check()
\* runs, finds the queue as it was and re-arms itself
WaitCall ==
  /\ wfc.st # "polling"
  /\ wfc' = [st |-> waitCheck(Q), rearmed |-> FALSE]
  /\ UNCHANGED <<qvars, vvars, xvars>>

\* check() called by its 100 ms timer
WaitPoll ==
  /\ wfc.st = "polling"
  /\ MicrotasksDrained
  /\ wfc' = [st |-> waitCheck(Q), rearmed |-> wfc.rearmed \/ waitCheck(Q) = "polling"]
  /\ UNCHANGED <<qvars, vvars, xvars>>

\* ------------------------------------------------------------ VideoScanner
\* autoScan stays enabled and pauseScanning is not called: isPaused is false.
\* initialize() has connected the observer, replaced history.pushState and
\* replaceState, added the popstate listener and set the initial scan timer.
InitScanner == scan = [NoScan EXCEPT !.observer = TRUE, !.initialTimer = "armed"]

\* the continuation of a scan task is waiting in the microtask queue
ScanResumeReady(job) ==
  /\ scan.kind[job] = "scan"
  /\ scan.pc[job] = "videos"
  /\ IF scan.awaits[job] = 0 THEN TRUE ELSE outcome[scan.awaits[job]].st # "pending"

\* timer callbacks run only when no continuation is waiting
ScannerQuiet == MicrotasksDrained /\ \A j \in Jobs : ~ScanResumeReady(j)

\* scanAllVideos(): nothing while isScanning, otherwise a scan job is enqueued
\* with priority 2
scanAllVideos(q) ==
  LET id == q.created + 1
  IN IF q.scan.isScanning THEN q
     ELSE IF id > MaxScanJobs THEN [q EXCEPT !.scan.overflow = TRUE]
     ELSE enqueue([q EXCEPT !.scan.kind[id] = "scan"], 2, {})

\* a step of the scanner or of a task: the queue and the scanner become q
ScannerStep(q) ==
  /\ ~q.scan.overflow
  /\ SetQ(q)
  /\ UNCHANGED <<wfc, vvars, xvars>>

\* the timer of scheduleInitialScan fires: it is never cleared
InitialScanTimer ==
  /\ scan.initialTimer = "armed"
  /\ ScannerQuiet
  /\ ScannerStep(scanAllVideos([Q EXCEPT !.scan.initialTimer = "fired"]))

\* the MutationObserver reports an added video: scheduleScan sets the
\* debounce timer anew
DomMutation ==
  /\ scan.observer
  /\ ScannerStep([Q EXCEPT !.scan.scanTimeout = TRUE])

\* pushState, replaceState or popstate with a new URL: handleUrlChange calls
\* scheduleUrlChangeScan, which sets the timer anew; the hooks are never removed
UrlChange == ScannerStep([Q EXCEPT !.scan.scanTimeout = TRUE])

\* the timer of scheduleScan or scheduleUrlChangeScan fires
ScanTimeoutFire ==
  /\ scan.scanTimeout
  /\ ScannerQuiet
  /\ ScannerStep(scanAllVideos([Q EXCEPT !.scan.scanTimeout = FALSE]))

\* VideoBlockerApp.cleanup(): VideoScanner.cleanup() disconnects the observer,
\* clears scanTimeout and resets isScanning; VideoBlocker.cleanup() replaces
\* processedVideos; ConcurrencyQueue.cleanup() clears the queue
AppCleanup ==
  ScannerStep(clearQueue([Q EXCEPT !.scan.observer = FALSE,
                                   !.scan.scanTimeout = FALSE,
                                   !.scan.isScanning = FALSE,
                                   !.scan.cleaned = TRUE,
                                   !.scan.processedVideos = {},
                                   !.scan.hashed = [v \in Videos |-> 0]],
                         "Cleanup"))

\* the task of job returns: its promise resolves
taskReturns(q, job) ==
  LET v == CHOOSE r \in Results : TRUE
  IN SettleRace([q EXCEPT !.task[job] = [st |-> "resolved", v |-> v],
                          !.scan.pc[job] = "done"],
                job, Resolved(v), "task")

\* processVideos after checkAndBlockVideo settled (a rejection is caught in
\* the loop): the next video, or the end of the scan, where the finally block
\* resets isScanning
ScanResume(job) ==
  /\ ScanResumeReady(job)
  /\ LET rest == Tail(scan.todo[job])
         q == [Q EXCEPT !.scan.todo[job] = rest]
     IN ScannerStep(IF rest = <<>>
                    THEN taskReturns([q EXCEPT !.scan.isScanning = FALSE], job)
                    ELSE checkAndBlockVideo(q, job, {}))

\* computeMultiFramePHash has returned to a check task, which returns (after
\* hideArticle for a blocked hash)
CheckDone(job) ==
  /\ scan.kind[job] = "check"
  /\ scan.pc[job] = "hashing"
  /\ ScannerStep(taskReturns(Q, job))

\* the task of a job that is neither a scan nor a check (blockVideo) ends
PlainTaskResolve(job) == scan.kind[job] = "plain" /\ TaskResolve(job)

\* the timer of executeJob; the timer of a settled job changes nothing and is
\* left out
ScanJobTimerFire(job) ==
  /\ ScannerQuiet
  /\ outcome[job].st = "pending"
  /\ TimerFire(job)

\* the continuation of executeJob: the finally block frees the slot and
\* processQueue starts the next jobs, whose bodies may enqueue in turn
ScanContinue(job) == Continue(job, FALSE) /\ ~scan'.overflow

\* setMaxConcurrent(1) on the queue before it is used
SingleSlot == created = 0 /\ SetMaxConcurrentTo(1)

\* ------------------------------------------------------------- VideoUtils
Runs == {1, 2}
Pixels == {0, 255}
Matrix == [1..MatCells -> Pixels]
\* null where the program has no matrix; also a capture that failed
NullMatrix == <<>>
HashOutcomes == {"null", "trivial", "good"}

\* one call of computeMultiFramePHash: where it is suspended and its locals
IdleRun == [pc |-> "idle", attempt |-> 0, frameCount |-> 0, originalMuted |-> FALSE,
            i |-> 0, matrices |-> <<>>, averageMatrix |-> NullMatrix, result |-> "none",
            \* instrumentation: video.muted at the call, whether muted was ever set,
            \* and what each capture of the current attempt gave
            mutedAtStart |-> FALSE, prepared |-> FALSE, frames |-> <<>>]

InitVideo == runs = [r \in Runs |-> IdleRun]

\* return null / return hash
Return(run, res) ==
  [run EXCEPT !.pc = "done", !.result = res, !.matrices = <<>>, !.frames = <<>>,
              !.averageMatrix = NullMatrix]

\* (a variant of catchAttempt: the error of the last attempt is thrown again)
catchAttemptRethrows(run) ==
  IF run.attempt = RetryCount
  THEN [run EXCEPT !.pc = "threw", !.result = "error", !.matrices = <<>>,
                   !.frames = <<>>, !.averageMatrix = NullMatrix]
  ELSE [run EXCEPT !.pc = "retryWait", !.matrices = <<>>, !.frames = <<>>,
                   !.averageMatrix = NullMatrix]

\* the catch block of the attempt: null on the last attempt, else wait 300 ms
catchAttempt(run) ==
  IF run.attempt = RetryCount THEN Return(run, "null")
  ELSE [run EXCEPT !.pc = "retryWait", !.matrices = <<>>, !.frames = <<>>,
                   !.averageMatrix = NullMatrix]

\* the head of the loop body: isValidVideoElement, then ensureVideoReady, which
\* resolves at once because readyState was tested in the same run of code
attemptHead(run, valid) ==
  IF ~valid
  THEN IF run.attempt < RetryCount THEN [run EXCEPT !.pc = "notReadyWait"]
       ELSE catchAttempt(run)
  ELSE [run EXCEPT !.pc = "ready"]

\* attempt++ and the loop test, then the next attempt
nextAttempt(run, valid) ==
  LET run1 == [run EXCEPT !.attempt = run.attempt + 1]
  IN IF run1.attempt <= RetryCount THEN attemptHead(run1, valid)
     ELSE Return(run1, "null")

\* Math.round(sum / count) for sum >= 0
RoundDiv(sum, count) == (2 * sum + count) \div (2 * count)

RECURSIVE SumCell(_, _, _)
SumCell(matrices, c, n) ==
  IF n = 0 THEN 0 ELSE matrices[n][c] + SumCell(matrices, c, n - 1)

\* averageMatrices(matrices)
averageMatrices(matrices) ==
  IF Len(matrices) = 0 THEN NullMatrix
  ELSE IF Len(matrices) = 1 THEN matrices[1]
  ELSE [c \in 1..Len(matrices[1]) |->
          RoundDiv(SumCell(matrices, c, Len(matrices)), Len(matrices))]

\* (a variant of captureResult: the test for zero captured frames is missing)
captureResultNoGuard(matrices) ==
  [c \in 1..MatCells |->
     RoundDiv(SumCell(matrices, c, Len(matrices)), Max(Len(matrices), 1))]

\* the end of captureAndAverageFrames
captureResult(matrices) ==
  IF Len(matrices) = 0 THEN NullMatrix ELSE averageMatrices(matrices)

\* one pass of the capture loop: frame is the matrix drawn, or NullMatrix when
\* drawImage / getImageData threw or the conversion gave null
captureFrame(run, frame) ==
  LET ms == IF frame # NullMatrix THEN Append(run.matrices, frame) ELSE run.matrices
      run1 == [run EXCEPT !.matrices = ms, !.frames = Append(run.frames, frame),
                          !.i = run.i + 1]
  IN IF run1.i < run1.frameCount THEN run1
     ELSE [run1 EXCEPT !.pc = "captured", !.averageMatrix = captureResult(ms)]

\* (a variant of RestoreMuted: the video is left muted)
RestoreMutedStuck(run) == TRUE

\* the value the finally block (and each return path) writes back to video.muted
RestoreMuted(run) == run.originalMuted

OthersQuiet(r) == \A o \in Runs \ {r} : runs[o].pc \in {"idle", "done"}

\* computeMultiFramePHash(video, frameCount) is called; the first attempt's
\* validity test runs in the call itself.  exclusive: no other call is in progress
VStart(r, exclusive) ==
  /\ runs[r].pc = "idle"
  /\ exclusive => OthersQuiet(r)
  /\ \E fc \in 1..MaxFrameCount, valid \in BOOLEAN :
       runs' = [runs EXCEPT ![r] =
                  attemptHead([IdleRun EXCEPT !.frameCount = fc, !.mutedAtStart = muted],
                              valid)]
  /\ UNCHANGED <<muted, qvars, wfc, xvars>>

\* the 500 ms wait for a video that was not ready is over
VNotReadyWaitDone(r) ==
  /\ runs[r].pc = "notReadyWait"
  /\ \E valid \in BOOLEAN : runs' = [runs EXCEPT ![r] = nextAttempt(runs[r], valid)]
  /\ UNCHANGED <<muted, qvars, wfc, xvars>>

\* the 300 ms wait of the catch block is over
VRetryWaitDone(r) ==
  /\ runs[r].pc = "retryWait"
  /\ \E valid \in BOOLEAN : runs' = [runs EXCEPT ![r] = nextAttempt(runs[r], valid)]
  /\ UNCHANGED <<muted, qvars, wfc, xvars>>

\* prepareVideoForCapture up to its await: seek is whether it seeks and waits
VPrepare(r) ==
  /\ runs[r].pc = "ready"
  /\ \E seek \in BOOLEAN :
       runs' = [runs EXCEPT ![r] = [@ EXCEPT !.originalMuted = muted,
                                             !.prepared = TRUE,
                                             !.pc = IF seek THEN "seeking" ELSE "prepared"]]
  /\ muted' = TRUE
  /\ UNCHANGED <<qvars, wfc, xvars>>

\* the seeked event of the video: it may never come
VSeeked(r) ==
  /\ runs[r].pc = "seeking"
  /\ runs' = [runs EXCEPT ![r].pc = "prepared"]
  /\ UNCHANGED <<muted, qvars, wfc, xvars>>

\* (a variant of SeekFallbackArmed: the seek is awaited without a timeout)
SeekFallbackMissing(run) == FALSE

\* prepareVideoForCapture arms a timer beside the seeked listener: 2000 ms for
\* the seek into the video, 1000 ms for the seek to 0.3 s
SeekFallbackArmed(run) == run.pc = "seeking"

\* the fallback timeout of the seek resolves the wait
VSeekTimeout(r) ==
  /\ SeekFallbackArmed(runs[r])
  /\ runs' = [runs EXCEPT ![r].pc = "prepared"]
  /\ UNCHANGED <<muted, qvars, wfc, xvars>>

\* createProcessingCanvas; a retry waits 300 ms before it captures
VCanvas(r) ==
  /\ runs[r].pc = "prepared"
  /\ runs' = [runs EXCEPT ![r] = [@ EXCEPT !.pc = IF runs[r].attempt > 0 THEN "stabilize"
                                                    ELSE "capture",
                                             !.i = 0, !.matrices = <<>>, !.frames = <<>>]]
  /\ UNCHANGED <<muted, qvars, wfc, xvars>>

VStabilized(r) ==
  /\ runs[r].pc = "stabilize"
  /\ runs' = [runs EXCEPT ![r].pc = "capture"]
  /\ UNCHANGED <<muted, qvars, wfc, xvars>>

\* one capture of captureAndAverageFrames (and the frame delay after it), the
\* video showing one of `frames`
CaptureFrameFrom(r, frames) ==
  /\ runs[r].pc = "capture"
  /\ \E frame \in frames :
       runs' = [runs EXCEPT ![r] = captureFrame(runs[r], frame)]
  /\ UNCHANGED <<muted, qvars, wfc, xvars>>

VCaptureFrame(r) == CaptureFrameFrom(r, Matrix \cup {NullMatrix})

\* computeMultiFramePHash after captureAndAverageFrames returned: the hash, the
\* quality test, and the restore of video.muted on every path
hashAttempt(run, h) ==
  IF run.averageMatrix = NullMatrix \/ h = "null" THEN catchAttempt(run)
  ELSE IF h = "trivial"
       THEN IF run.attempt < RetryCount
            THEN [run EXCEPT !.pc = "trivialWait", !.matrices = <<>>, !.frames = <<>>,
                             !.averageMatrix = NullMatrix]
            ELSE Return(run, "null")
       ELSE Return(run, h)

VHash(r) ==
  /\ runs[r].pc = "captured"
  /\ \E h \in HashOutcomes : runs' = [runs EXCEPT ![r] = hashAttempt(runs[r], h)]
  /\ muted' = RestoreMuted(runs[r])
  /\ UNCHANGED <<qvars, wfc, xvars>>

\* the 800 ms wait after a trivial hash is over: continue runs the finally block
VTrivialWaitDone(r) ==
  /\ runs[r].pc = "trivialWait"
  /\ \E valid \in BOOLEAN : runs' = [runs EXCEPT ![r] = nextAttempt(runs[r], valid)]
  /\ muted' = RestoreMuted(runs[r])
  /\ UNCHANGED <<qvars, wfc, xvars>>

\* --------------------------------------------------------------- HashUtils
\* A JavaScript value given where a hash is expected: a string over '0' and '1'
\* (its characters as a sequence), null, or a number
Bits == {0, 1}
BitStrings(n) == UNION {[1..k -> Bits] : k \in 0..n}
Str(s) == [type |-> "string", s |-> s]
Null == [type |-> "object", s |-> <<>>]
Num == [type |-> "number", s |-> <<>>]
HashValues(n) == {Str(s) : s \in BitStrings(n)} \cup {Null, Num}
\* !value
Falsy(v) == v = Null \/ v = Str(<<>>)

\* Infinity: above every finite distance and threshold
Infinity == 999
Abs(x) == IF x < 0 THEN -x ELSE x

\* the loop of hammingDistance over the common prefix
RECURSIVE countDifferences(_, _, _, _)
countDifferences(s1, s2, i, minLength) ==
  IF i > minLength THEN 0
  ELSE (IF s1[i] # s2[i] THEN 1 ELSE 0) + countDifferences(s1, s2, i + 1, minLength)

\* (a variant of hammingDistance: the longer string is silently truncated)
hammingDistanceTruncating(hash1, hash2) ==
  IF Falsy(hash1) \/ Falsy(hash2) THEN Infinity
  ELSE IF hash1.type # "string" \/ hash2.type # "string" THEN Infinity
  ELSE countDifferences(hash1.s, hash2.s, 1, Min(Len(hash1.s), Len(hash2.s)))

\* (a variant of hammingDistance: only a longer first string is penalised)
hammingDistanceOneSided(hash1, hash2) ==
  IF Falsy(hash1) \/ Falsy(hash2) THEN Infinity
  ELSE IF hash1.type # "string" \/ hash2.type # "string" THEN Infinity
  ELSE countDifferences(hash1.s, hash2.s, 1, Min(Len(hash1.s), Len(hash2.s)))
       + Max(Len(hash1.s) - Len(hash2.s), 0)

\* hammingDistance(hash1, hash2)
hammingDistance(hash1, hash2) ==
  IF Falsy(hash1) \/ Falsy(hash2) THEN Infinity
  ELSE IF hash1.type # "string" \/ hash2.type # "string" THEN Infinity
  ELSE LET minLength == Min(Len(hash1.s), Len(hash2.s))
       IN countDifferences(hash1.s, hash2.s, 1, minLength)
          + Abs(Len(hash1.s) - Len(hash2.s))

\* (a variant of areHashesSimilar: the boundary distance does not match)
areHashesSimilarStrict(hash1, hash2, threshold) ==
  hammingDistance(hash1, hash2) < threshold

\* areHashesSimilar(hash1, hash2, threshold)
areHashesSimilar(hash1, hash2, threshold) ==
  hammingDistance(hash1, hash2) <= threshold

\* (a variant of DefaultThreshold: the default is the value at load time)
DefaultThresholdFrozen(config) == HAMMING_THRESHOLD

\* the default value of areHashesSimilar's threshold parameter, evaluated at
\* each call that gives no threshold
DefaultThreshold(config) == config.HAMMING_THRESHOLD

\* bestMatch = null, minDistance = Infinity
NoMatch == [hash |-> Null, distance |-> Infinity]

\* (a variant of scanHashList: a later candidate at the same distance wins)
RECURSIVE scanHashListLastWins(_, _, _, _)
scanHashListLastWins(targetHash, hashList, i, bestMatch) ==
  IF i > Len(hashList) THEN bestMatch
  ELSE LET distance == hammingDistance(targetHash, hashList[i])
       IN scanHashListLastWins(targetHash, hashList, i + 1,
            IF distance <= bestMatch.distance
            THEN [hash |-> hashList[i], distance |-> distance]
            ELSE bestMatch)

\* the loop of findMostSimilarHash; bestMatch.distance is minDistance
RECURSIVE scanHashList(_, _, _, _)
scanHashList(targetHash, hashList, i, bestMatch) ==
  IF i > Len(hashList) THEN bestMatch
  ELSE LET distance == hammingDistance(targetHash, hashList[i])
       IN scanHashList(targetHash, hashList, i + 1,
            IF distance < bestMatch.distance
            THEN [hash |-> hashList[i], distance |-> distance]
            ELSE bestMatch)

\* findMostSimilarHash(targetHash, hashList); the similarity percentage of the
\* result is left out
findMostSimilarHash(targetHash, hashList) ==
  IF Falsy(targetHash) \/ Len(hashList) = 0 THEN NoMatch
  ELSE scanHashList(targetHash, hashList, 1, NoMatch)

\* the loop of isHashBlocked over the Set, in insertion order
RECURSIVE anySimilar(_, _, _, _)
anySimilar(hash, blocked, i, config) ==
  IF i > Len(blocked) THEN FALSE
  ELSE IF areHashesSimilar(hash, blocked[i], DefaultThreshold(config)) THEN TRUE
  ELSE anySimilar(hash, blocked, i + 1, config)

\* (a variant of isHashBlocked: only the direct match)
isHashBlockedExact(hash, blocked, config) ==
  IF Falsy(hash) THEN FALSE
  ELSE hash \in Range(blocked)

\* VideoBlocker.isHashBlocked(hash)
isHashBlocked(hash, blocked, config) ==
  IF Falsy(hash) THEN FALSE
  ELSE IF hash \in Range(blocked) THEN TRUE
  ELSE anySimilar(hash, blocked, 1, config)

\* ones, zeros and the test of isTrivialHash
RECURSIVE countOnes(_, _)
countOnes(s, i) ==
  IF i > Len(s) THEN 0 ELSE (IF s[i] = 1 THEN 1 ELSE 0) + countOnes(s, i + 1)

\* (a variant of isSkewed: the minimum itself is accepted)
isSkewedStrict(ones, zeros) == ones < MIN_ONES_ZEROS \/ zeros < MIN_ONES_ZEROS

isSkewed(ones, zeros) == ones <= MIN_ONES_ZEROS \/ zeros <= MIN_ONES_ZEROS

isTrivialHash(hash) ==
  IF Falsy(hash) \/ hash.type # "string" THEN TRUE
  ELSE LET ones == countOnes(hash.s, 1)
           zeros == Len(hash.s) - ones
       IN isSkewed(ones, zeros)

\* A matrix given to computePHashFromMatrix, by its shape and by the top-left
\* block of its transform: dct2D sums in floating point, which is not computed
\* here, so its coefficients are given with the matrix.
BlockCells == (0..(DCT_BLOCK_SIZE - 1)) \X (0..(DCT_BLOCK_SIZE - 1))
\* the result of arithmetic on undefined
NaN == -999
NoMatrix == [given |-> FALSE, rows |-> 0, cols |-> 0, dct |-> [c \in BlockCells |-> 0]]

\* dct2D reads matrix[y][x] for x and y below matrix.length: a cell beyond the
\* end of a row is undefined, and every sum takes in every cell
dct2D(matrix) ==
  IF matrix.cols < matrix.rows THEN [c \in BlockCells |-> NaN] ELSE matrix.dct

\* (a variant of extractBlock: the DC component is kept)
extractBlockWithDC(dct) ==
  [k \in 1..(DCT_BLOCK_SIZE * DCT_BLOCK_SIZE) |->
     dct[<<(k - 1) \div DCT_BLOCK_SIZE, (k - 1) % DCT_BLOCK_SIZE>>]]

\* the 8x8 block row by row (dct[y][x]), the DC component at (0,0) skipped
extractBlock(dct) ==
  [k \in 1..(DCT_BLOCK_SIZE * DCT_BLOCK_SIZE - 1) |->
     dct[<<k \div DCT_BLOCK_SIZE, k % DCT_BLOCK_SIZE>>]]

\* block.slice().sort((a, b) => a - b): the values in ascending order (an
\* array of NaN only is left as it is)
sortAscending(block) ==
  [j \in 1..Len(block) |->
     CHOOSE v \in Range(block) :
       /\ Cardinality({i \in 1..Len(block) : block[i] < v}) < j
       /\ j <= Cardinality({i \in 1..Len(block) : block[i] <= v})]

\* (a variant of aboveMedian: a coefficient equal to the median gives 1)
aboveMedianOrEqual(v, median) == IF v # NaN /\ median # NaN /\ v >= median THEN 1 ELSE 0

\* v > median
aboveMedian(v, median) == IF v # NaN /\ median # NaN /\ v > median THEN 1 ELSE 0

\* (a variant of medianOf: the element below the middle one)
medianOfLower(sorted) == sorted[Len(sorted) \div 2]

\* sorted[Math.floor(sorted.length / 2)], counted from 1 here
medianOf(sorted) == sorted[(Len(sorted) \div 2) + 1]

computePHashFromMatrix(matrix32) ==
  IF ~matrix32.given \/ matrix32.rows # CANVAS_SIZE THEN Null
  ELSE LET block == extractBlock(dct2D(matrix32))
           sorted == sortAscending(block)
           median == medianOf(sorted)
       IN Str([k \in 1..Len(block) |-> aboveMedian(block[k], median)])

\* what computeMultiFramePHash makes of the averaged matrix of an attempt: a
\* missing or trivial hash is never returned (null comes back when the
\* attempts are used up)
multiFrameHash(averageMatrix) ==
  LET hash == computePHashFromMatrix(averageMatrix)
  IN IF Falsy(hash) \/ isTrivialHash(hash) THEN Null ELSE hash

\* (a variant of validateHash: the test for a trivial hash is missing)
validateHashFormatOnly(hash) ==
  IF Falsy(hash) THEN FALSE
  ELSE IF hash.type # "string" THEN FALSE
  ELSE IF \E i \in 1..Len(hash.s) : hash.s[i] \notin Bits THEN FALSE
  ELSE Len(hash.s) = DCT_BLOCK_SIZE * DCT_BLOCK_SIZE - 1

\* validateHash(hash).valid; the character 2 stands for any character but 0 and 1
validateHash(hash) ==
  IF Falsy(hash) THEN FALSE
  ELSE IF hash.type # "string" THEN FALSE
  ELSE IF \E i \in 1..Len(hash.s) : hash.s[i] \notin Bits THEN FALSE
  ELSE /\ ~isTrivialHash(hash)
       /\ Len(hash.s) = DCT_BLOCK_SIZE * DCT_BLOCK_SIZE - 1

NoArgs ==
  [hash1 |-> Null, hash2 |-> Null, threshold |-> 0, hashList |-> <<>>, matrix |-> NoMatrix]
NoResult ==
  [fn |-> "none", distance |-> 0, similar |-> FALSE, bestMatch |-> NoMatch,
   trivial |-> FALSE, valid |-> FALSE, hash |-> Null, returned |-> FALSE]

\* HASH_CONFIG as exported, an empty registry, no call
InitIdleHash ==
  /\ HASH_CONFIG = [HAMMING_THRESHOLD |-> HAMMING_THRESHOLD]
  /\ blockedHashes = <<>>
  /\ hargs = NoArgs
  /\ hres = NoResult

CallHammingDistance ==
  /\ hres.fn = "none"
  /\ hres' = [NoResult EXCEPT !.fn = "hammingDistance",
                              !.distance = hammingDistance(hargs.hash1, hargs.hash2)]
  /\ UNCHANGED <<qvars, wfc, vvars, HASH_CONFIG, blockedHashes, hargs, svars, tvars, bv, legacy>>

CallAreHashesSimilar ==
  /\ hres.fn = "none"
  /\ hres' = [NoResult EXCEPT !.fn = "areHashesSimilar",
                              !.similar = areHashesSimilar(hargs.hash1, hargs.hash2,
                                                           hargs.threshold)]
  /\ UNCHANGED <<qvars, wfc, vvars, HASH_CONFIG, blockedHashes, hargs, svars, tvars, bv, legacy>>

CallFindMostSimilarHash ==
  /\ hres.fn = "none"
  /\ hres' = [NoResult EXCEPT !.fn = "findMostSimilarHash",
                              !.bestMatch = findMostSimilarHash(hargs.hash1, hargs.hashList)]
  /\ UNCHANGED <<qvars, wfc, vvars, HASH_CONFIG, blockedHashes, hargs, svars, tvars, bv, legacy>>

CallIsHashBlocked ==
  /\ hres.fn = "none"
  /\ hres' = [NoResult EXCEPT !.fn = "isHashBlocked",
                              !.similar = isHashBlocked(hargs.hash1, blockedHashes,
                                                        HASH_CONFIG)]
  /\ UNCHANGED <<qvars, wfc, vvars, HASH_CONFIG, blockedHashes, hargs, svars, tvars, bv, legacy>>

CallIsTrivialHash ==
  /\ hres.fn = "none"
  /\ hres' = [NoResult EXCEPT !.fn = "isTrivialHash", !.trivial = isTrivialHash(hargs.hash1)]
  /\ UNCHANGED <<qvars, wfc, vvars, HASH_CONFIG, blockedHashes, hargs, svars, tvars, bv, legacy>>

CallValidateHash ==
  /\ hres.fn = "none"
  /\ hres' = [NoResult EXCEPT !.fn = "validateHash", !.valid = validateHash(hargs.hash1)]
  /\ UNCHANGED <<qvars, wfc, vvars, HASH_CONFIG, blockedHashes, hargs, svars, tvars, bv, legacy>>

CallComputePHashFromMatrix ==
  /\ hres.fn = "none"
  /\ hres' = [NoResult EXCEPT !.fn = "computePHashFromMatrix",
                              !.hash = computePHashFromMatrix(hargs.matrix)]
  /\ UNCHANGED <<qvars, wfc, vvars, HASH_CONFIG, blockedHashes, hargs, svars, tvars, bv, legacy>>

\* ---------------------------------------------------------- StorageManager
\* the hashes that are saved and removed
Hashes == {Str(<<0, 1>>), Str(<<1, 0>>)}
OpSlots == {1, 2}
IdleOp == [fn |-> "none", hash |-> Null, pc |-> "idle", data |-> <<>>]

Without(list, h) == SelectSeq(list, LAMBDA x : x # h)
\* Set.add
SetAdd(list, h) == IF h \in Range(list) THEN list ELSE Append(list, h)

NothingSaved == [returned |-> {}, released |-> {}, cleared |-> FALSE]
Released(hashes) == [saved EXCEPT !.released = @ \cup hashes]

\* nothing stored, loaded or in flight
InitIdleStore ==
  /\ store = <<>>
  /\ cache = <<>>
  /\ ops = [o \in OpSlots |-> IdleOp]
  /\ events = <<>>
  /\ opsStarted = 0
  /\ saved = NothingSaved

\* VideoBlocker.addBlockedHash(h) for a valid hash, or blockVideo from its test
\* of blockedHashes on (which returns false for a hash of the registry): up to
\* the storage.get of saveBlockedHash
StartSave(o, h, fromBlockVideo) ==
  /\ ops[o].pc = "idle"
  /\ opsStarted < MaxStoreOps
  /\ opsStarted' = opsStarted + 1
  /\ ops' = IF fromBlockVideo /\ h \in Range(blockedHashes) THEN ops
            ELSE [ops EXCEPT ![o] = [fn |-> "save", hash |-> h, pc |-> "get", data |-> <<>>]]
  /\ UNCHANGED <<store, cache, events, blockedHashes, saved>>

\* VideoBlocker.addBlockedHash(h) for any value h: false is returned at once
\* for a value that validateHash does not accept
AddBlockedHash(o, h) ==
  IF validateHash(h)
  THEN StartSave(o, h, FALSE) /\ UNCHANGED <<hargs, hres>>
  ELSE /\ ops[o].pc = "idle"
       /\ opsStarted < MaxStoreOps
       /\ opsStarted' = opsStarted + 1
       /\ hres' = [NoResult EXCEPT !.fn = "addBlockedHash"]
       /\ UNCHANGED <<hargs, store, cache, ops, events, saved, blockedHashes>>

\* VideoBlocker.removeBlockedHash(h) up to the storage.get of removeBlockedHash
StartRemove(o, h) ==
  /\ ops[o].pc = "idle"
  /\ opsStarted < MaxStoreOps
  /\ opsStarted' = opsStarted + 1
  /\ ops' = [ops EXCEPT ![o] = [fn |-> "remove", hash |-> h, pc |-> "get", data |-> <<>>]]
  /\ saved' = Released({h})
  /\ UNCHANGED <<store, cache, events, blockedHashes>>

\* VideoBlocker.clearAllBlocked() up to the storage.set of clearAllHashes
StartClear(o) ==
  /\ ops[o].pc = "idle"
  /\ opsStarted < MaxStoreOps
  /\ opsStarted' = opsStarted + 1
  /\ ops' = [ops EXCEPT ![o] = [fn |-> "clear", hash |-> Null, pc |-> "set", data |-> <<>>]]
  /\ saved' = [saved EXCEPT !.cleared = TRUE]
  /\ UNCHANGED <<store, cache, events, blockedHashes>>

\* (a variant of saveAfterGet: the test for an existing item is missing)
saveAfterGetUnchecked(op, existingData) ==
  [op EXCEPT !.pc = "set", !.data = Append(existingData, op.hash)]

\* saveBlockedHash after its storage.get: false for a hash that is stored,
\* otherwise storage.set of the list with the new item
saveAfterGet(op, existingData) ==
  IF op.hash \in Range(existingData) THEN IdleOp
  ELSE [op EXCEPT !.pc = "set", !.data = Append(existingData, op.hash)]

\* removeBlockedHash after its storage.get
removeAfterGet(op, existingData) ==
  LET filteredData == Without(existingData, op.hash)
  IN IF Len(filteredData) = Len(existingData) THEN IdleOp
     ELSE [op EXCEPT !.pc = "set", !.data = filteredData]

\* the callback of storage.get: the list is read as it then is
GetDone(o) ==
  /\ ops[o].pc = "get"
  /\ ops' = [ops EXCEPT ![o] = IF ops[o].fn = "save" THEN saveAfterGet(ops[o], store)
                               ELSE removeAfterGet(ops[o], store)]
  /\ UNCHANGED <<store, cache, events, opsStarted, blockedHashes, saved>>

\* chrome.storage fires onChanged for a key whose value changed
Changed(old, new) == IF old = new THEN <<>> ELSE <<new>>

\* the browser performs a storage.set
WriteApplied(o) ==
  /\ ops[o].pc = "set"
  /\ store' = ops[o].data
  /\ events' = events \o Changed(store, ops[o].data)
  /\ ops' = [ops EXCEPT ![o].pc = "written"]
  /\ UNCHANGED <<cache, opsStarted, blockedHashes, saved>>

\* the cache update after storage.set, by the method that made it
cacheAfterSet(op, cachedHashes) ==
  IF op.fn = "save" THEN Append(cachedHashes, op.hash)
  ELSE IF op.fn = "remove" THEN Without(cachedHashes, op.hash)
  ELSE <<>>

\* the callback of storage.set: the cache is updated and updateStats is awaited
SetDone(o) ==
  /\ ops[o].pc = "written"
  /\ cache' = cacheAfterSet(ops[o], cache)
  /\ ops' = [ops EXCEPT ![o].pc = "stats"]
  /\ UNCHANGED <<store, events, opsStarted, blockedHashes, saved>>

\* the registry update of VideoBlocker after the StorageManager method returned true
registryAfter(op, blocked) ==
  IF op.fn = "save" THEN SetAdd(blocked, op.hash)
  ELSE IF op.fn = "remove" THEN Without(blocked, op.hash)
  ELSE <<>>

\* updateStats is over (it uses another key): the method returns true and the
\* caller in VideoBlocker updates blockedHashes
StatsDone(o) ==
  /\ ops[o].pc = "stats"
  /\ blockedHashes' = registryAfter(ops[o], blockedHashes)
  /\ ops' = [ops EXCEPT ![o] = IdleOp]
  /\ saved' = IF ops[o].fn = "save" THEN [saved EXCEPT !.returned = @ \cup {ops[o].hash}]
              ELSE saved
  /\ UNCHANGED <<store, cache, events, opsStarted>>

\* (a variant of registryOnFalse: the registry is updated whatever was returned)
registryOnFalseUpdated(op, blocked) == registryAfter(op, blocked)

\* the caller in VideoBlocker after the StorageManager method returned false:
\* `if (success)` and `if (saved)` skip the update, blockVideo throws
registryOnFalse(op, blocked) == blocked

\* the callback of storage.get finds chrome.runtime.lastError: getStorageData
\* rejects, the StorageManager method catches and returns false
GetFailed(o) ==
  /\ ops[o].pc = "get"
  /\ ops' = [ops EXCEPT ![o] = IdleOp]
  /\ blockedHashes' = registryOnFalse(ops[o], blockedHashes)
  /\ UNCHANGED <<store, cache, events, opsStarted, saved>>

\* the callback of storage.set finds chrome.runtime.lastError: nothing was
\* written, setStorageData rejects and the method returns false
SetFailed(o) ==
  /\ ops[o].pc = "set"
  /\ ops' = [ops EXCEPT ![o] = IdleOp]
  /\ blockedHashes' = registryOnFalse(ops[o], blockedHashes)
  /\ UNCHANGED <<store, cache, events, opsStarted, saved>>

\* StorageManager.handleStorageChange: the cache becomes the new list; nobody
\* has registered with addChangeListener, so notifyListeners calls nothing
handleStorageChange(cachedHashes, newValue) == newValue

DeliverEvent ==
  /\ events # <<>>
  /\ cache' = handleStorageChange(cache, Head(events))
  /\ events' = Tail(events)
  /\ UNCHANGED <<store, ops, opsStarted, blockedHashes, saved>>

\* OptionsManager.removeHash(h) in the options page
ExternalRemove(h) ==
  /\ opsStarted < MaxStoreOps
  /\ h \in Range(store)
  /\ store' = Without(store, h)
  /\ events' = events \o Changed(store, store')
  /\ opsStarted' = opsStarted + 1
  /\ saved' = Released({h})
  /\ UNCHANGED <<cache, ops, blockedHashes>>

\* OptionsManager.clearAllHashes() in the options page
ExternalClear ==
  /\ opsStarted < MaxStoreOps
  /\ store' = <<>>
  /\ events' = events \o Changed(store, <<>>)
  /\ opsStarted' = opsStarted + 1
  /\ saved' = [saved EXCEPT !.cleared = TRUE]
  /\ UNCHANGED <<cache, ops, blockedHashes>>

StoreStep ==
  \/ \E o \in OpSlots, h \in Hashes, b \in BOOLEAN : StartSave(o, h, b)
  \/ \E o \in OpSlots, h \in Hashes : StartRemove(o, h)
  \/ \E o \in OpSlots : StartClear(o)
  \/ \E o \in OpSlots : GetDone(o)
  \/ \E o \in OpSlots : WriteApplied(o)
  \/ \E o \in OpSlots : SetDone(o)
  \/ \E o \in OpSlots : StatsDone(o)
  \/ DeliverEvent

\* ---------------------------------------------------------------- settings
\* the sensitivities the options page stores
Sensitivities == 0..MaxThreshold

\* the app has been created and initialized with no stored settings
InitSettings ==
  /\ storedSettings = <<>>
  /\ appSettings = [sensitivity |-> HAMMING_THRESHOLD]
  /\ settingsEvents = 0
  /\ loads = 0
  /\ settingsChanges = 0

\* OptionsManager.saveSettings with the slider at s
SettingsChanged(s) ==
  /\ settingsChanges < MaxSettingsChanges
  /\ settingsChanges' = settingsChanges + 1
  /\ storedSettings' = <<s>>
  /\ settingsEvents' = settingsEvents + Len(Changed(storedSettings, <<s>>))
  /\ UNCHANGED <<appSettings, loads, HASH_CONFIG>>

\* the storage listener of setupEventHandlers: loadSettings is called
SettingsEvent ==
  /\ settingsEvents > 0
  /\ settingsEvents' = settingsEvents - 1
  /\ loads' = loads + 1
  /\ UNCHANGED <<storedSettings, appSettings, settingsChanges, HASH_CONFIG>>

\* { ...this.settings, ...storedSettings }
mergeSettings(settings, stored) ==
  IF stored = <<>> THEN settings ELSE [settings EXCEPT !.sensitivity = stored[1]]

\* loadSettings after its storage.get (answered in the order of the calls):
\* the settings are merged and the sensitivity is written to HASH_CONFIG
LoadSettingsDone ==
  /\ loads > 0
  /\ loads' = loads - 1
  /\ appSettings' = mergeSettings(appSettings, storedSettings)
  /\ HASH_CONFIG' = [HASH_CONFIG EXCEPT !.HAMMING_THRESHOLD = appSettings'.sensitivity]
  /\ UNCHANGED <<storedSettings, settingsEvents, settingsChanges>>

SettingsStep ==
  \/ \E s \in Sensitivities : SettingsChanged(s)
  \/ SettingsEvent
  \/ LoadSettingsDone

\* ------------------------------------------------- VideoBlocker.blockVideo
\* The task that blockVideo gives to the queue, for the job in slot j: it
\* awaits computeMultiFramePHash, saveBlockedHash and hideArticle.
BvIdle == [pc |-> "idle", wrote |-> FALSE, added |-> FALSE, hid |-> FALSE]

InitIdleBlock == bv = [j \in OpSlots |-> BvIdle]

\* computeMultiFramePHash has returned h (null when no hash could be made):
\* false is returned for no hash and for a hash of blockedHashes, otherwise
\* saveBlockedHash is called
BvHashed(j, h) ==
  /\ task[j].st = "running"
  /\ bv[j].pc = "idle"
  /\ IF h = Null \/ h \in Range(blockedHashes)
     THEN /\ bv' = [bv EXCEPT ![j].pc = "done"]
          /\ UNCHANGED <<svars, blockedHashes>>
     ELSE /\ StartSave(j, h, TRUE)
          /\ bv' = [bv EXCEPT ![j].pc = "saving"]
  /\ UNCHANGED <<qvars, wfc, vvars, HASH_CONFIG, hargs, hres, tvars, legacy>>

\* saveBlockedHash after its storage.get: when it returns false, blockVideo
\* throws, catches and returns false
BvGetDone(j) ==
  /\ bv[j].pc = "saving"
  /\ GetDone(j)
  /\ bv' = [bv EXCEPT ![j].pc = IF ops'[j].pc = "idle" THEN "done" ELSE "saving"]
  /\ UNCHANGED <<qvars, wfc, vvars, HASH_CONFIG, hargs, hres, tvars, legacy>>

\* the storage.set of the task is performed
BvWriteApplied(j) ==
  /\ bv[j].pc = "saving"
  /\ WriteApplied(j)
  /\ bv' = [bv EXCEPT ![j].wrote = TRUE]
  /\ UNCHANGED <<qvars, wfc, vvars, HASH_CONFIG, hargs, hres, tvars, legacy>>

BvSetDone(j) ==
  /\ bv[j].pc = "saving"
  /\ SetDone(j)
  /\ UNCHANGED <<qvars, wfc, vvars, HASH_CONFIG, hargs, hres, tvars, bv, legacy>>

\* saveBlockedHash returned true: blockedHashes.add(hash), and hideArticle is
\* called when the video has an article (it fades the article at once and
\* resolves after HIDE_DELAY_MS)
BvSaved(j, article) ==
  /\ bv[j].pc = "saving"
  /\ StatsDone(j)
  /\ bv' = [bv EXCEPT ![j].added = TRUE, ![j].hid = article,
                      ![j].pc = IF article THEN "hiding" ELSE "done"]
  /\ UNCHANGED <<qvars, wfc, vvars, HASH_CONFIG, hargs, hres, tvars, legacy>>

\* hideArticle has resolved
BvHideDone(j) ==
  /\ bv[j].pc = "hiding"
  /\ bv' = [bv EXCEPT ![j].pc = "done"]
  /\ UNCHANGED <<qvars, wfc, vvars, hvars, svars, tvars, legacy>>

\* the task returns: its promise resolves
BvReturn(j) ==
  /\ bv[j].pc = "done"
  /\ TaskResolve(j)

\* ---------------------------------------------------------- specifications
InitIdleVideo == muted = FALSE /\ InitVideo

\* the queue with its capacity as constructed: every task and timer event
Init ==
  /\ InitQueue /\ InitWait /\ InitNoLegacy /\ InitIdleVideo
  /\ InitIdleHash /\ InitIdleStore /\ InitSettings /\ InitIdleBlock

Next ==
  \/ Enqueue(MaxJobs, {0, 1}, TRUE)
  \/ \E j \in Jobs : TaskResolve(j)
  \/ \E j \in Jobs : TaskThrow(j)
  \/ \E j \in Jobs : TimerFire(j)
  \/ \E j \in Jobs : Continue(j, TRUE)
  \/ ClearQueue

Spec == Init /\ [][Next]_vars

\* priorities and capacity changes
NextCapacity ==
  \/ Enqueue(MaxCapJobs, {1, 3, 5}, FALSE)
  \/ \E j \in Jobs : TaskResolve(j)
  \/ \E j \in Jobs : Continue(j, FALSE)
  \/ SetMaxConcurrent
  \/ ClearQueue

SpecCapacity == Init /\ [][NextCapacity]_vars

\* timers always fire and continuations always run; a task may never settle
NextLive ==
  \/ Enqueue(MaxLiveJobs, {0}, FALSE)
  \/ \E j \in Jobs : TaskResolve(j)
  \/ \E j \in Jobs : TimerFire(j)
  \/ \E j \in Jobs : Continue(j, FALSE)

TimerStep == \E j \in Jobs : TimerFire(j)
ContinueStep == \E j \in Jobs : Continue(j, FALSE)

SpecLive ==
  /\ Init /\ [][NextLive]_vars
  /\ WF_vars(TimerStep) /\ WF_vars(ContinueStep)

\* a caller of waitForCompletion beside the queue's clients
NextWait ==
  \/ Enqueue(MaxWaitJobs, {0}, FALSE)
  \/ \E j \in Jobs : TaskResolve(j)
  \/ \E j \in Jobs : TimerFire(j)
  \/ \E j \in Jobs : Continue(j, FALSE)
  \/ ClearQueue
  \/ WaitCall
  \/ WaitPoll

SpecWait ==
  /\ Init /\ [][NextWait]_vars
  /\ WF_vars(WaitPoll)

\* calls of computeMultiFramePHash on one video, one at a time
InitVideoSpec ==
  /\ InitQueue /\ InitWait /\ InitNoLegacy /\ muted \in BOOLEAN /\ InitVideo
  /\ InitIdleHash /\ InitIdleStore /\ InitSettings /\ InitIdleBlock

NextVideo ==
  \E r \in Runs :
    \/ VStart(r, TRUE)
    \/ VNotReadyWaitDone(r)
    \/ VRetryWaitDone(r)
    \/ VPrepare(r)
    \/ VSeeked(r)
    \/ VSeekTimeout(r)
    \/ VCanvas(r)
    \/ VStabilized(r)
    \/ VCaptureFrame(r)
    \/ VHash(r)
    \/ VTrivialWaitDone(r)

SpecVideo == InitVideoSpec /\ [][NextVideo]_vars

\* the same calls on a video that shows a black frame or none; timers fire and
\* continuations run, the video's own events may never come
BlackFrame == [c \in 1..MatCells |-> 0]

VideoTimerStep ==
  \E r \in Runs :
    \/ VNotReadyWaitDone(r)
    \/ VRetryWaitDone(r)
    \/ VPrepare(r)
    \/ VSeekTimeout(r)
    \/ VCanvas(r)
    \/ VStabilized(r)
    \/ CaptureFrameFrom(r, {BlackFrame, NullMatrix})
    \/ VHash(r)
    \/ VTrivialWaitDone(r)

NextVideoLive ==
  \/ \E r \in Runs : VStart(r, TRUE)
  \/ \E r \in Runs : VSeeked(r)
  \/ VideoTimerStep

SpecVideoLive ==
  /\ InitVideoSpec /\ [][NextVideoLive]_vars
  /\ WF_vars(VideoTimerStep)

\* calls of computeMultiFramePHash on one video that may overlap: jobs of the
\* queue run up to maxConcurrent at a time, and a task whose job timed out
\* goes on beside the next one
NextOverlap ==
  \/ \E r \in Runs : VStart(r, FALSE)
  \/ \E r \in Runs : VSeeked(r)
  \/ VideoTimerStep

SpecOverlap == InitVideoSpec /\ [][NextOverlap]_vars

\* the scanner on a page with videos, with clicks that block videos, a
\* capacity that may be set to 1 and the app's cleanup
InitScan ==
  /\ InitJobs
  /\ InitScanner
  /\ InitWait /\ InitNoLegacy /\ InitIdleVideo
  /\ InitIdleHash /\ InitIdleStore /\ InitSettings /\ InitIdleBlock

NextScan ==
  \/ InitialScanTimer
  \/ DomMutation
  \/ UrlChange
  \/ ScanTimeoutFire
  \/ AppCleanup
  \/ \E j \in Jobs : ScanResume(j)
  \/ \E j \in Jobs : CheckDone(j)
  \/ Enqueue(MaxBlockJobs, {0}, FALSE)
  \/ \E j \in Jobs : PlainTaskResolve(j)
  \/ \E j \in Jobs : ScanJobTimerFire(j)
  \/ \E j \in Jobs : ScanContinue(j)
  \/ SingleSlot

SpecScan == InitScan /\ [][NextScan]_vars

\* the legacy content script on a page whose videos come one after another;
\* timers fire and microtasks run, while a video need not report readiness
\* and need not present a frame
InitLegacy ==
  /\ legacy \in {[NoLegacy EXCEPT !.rvfc = b] : b \in BOOLEAN}
  /\ InitQueue /\ InitWait /\ InitIdleVideo
  /\ InitIdleHash /\ InitIdleStore /\ InitSettings /\ InitIdleBlock

NextLegacy ==
  \/ LegacyEnqueue
  \/ \E t \in LTasks : LegacyTaskStart(t)
  \/ \E t \in LTasks : ReadinessEvent(t)
  \/ \E t \in LTasks : ReadinessTimer(t)
  \/ \E t \in LTasks : FramePresented(t)
  \/ \E t \in LTasks : FrameTimer(t)
  \/ \E t \in LTasks : LegacyFinally(t)

SpecLegacy ==
  /\ InitLegacy /\ [][NextLegacy]_vars
  /\ \A t \in LTasks :
       /\ WF_vars(LegacyTaskStart(t))
       /\ WF_vars(ReadinessTimer(t))
       /\ WF_vars(FrameTimer(t))
       /\ WF_vars(LegacyFinally(t))

\* hammingDistance and areHashesSimilar on every pair of values
InitHamming ==
  /\ InitQueue /\ InitWait /\ InitNoLegacy /\ InitIdleVideo /\ InitIdleStore /\ InitSettings /\ InitIdleBlock
  /\ HASH_CONFIG = [HAMMING_THRESHOLD |-> HAMMING_THRESHOLD]
  /\ blockedHashes = <<>>
  /\ hargs \in [hash1 : HashValues(MaxHashLen), hash2 : HashValues(MaxHashLen),
                threshold : 0..MaxThreshold, hashList : {<<>>}, matrix : {NoMatrix}]
  /\ hres = NoResult

NextHamming == CallHammingDistance \/ CallAreHashesSimilar

SpecHamming == InitHamming /\ [][NextHamming]_vars

\* the matcher: findMostSimilarHash on every list of values, isHashBlocked on
\* every registry of hashes and every threshold the settings may have set
SeqsUpTo(S, n) == UNION {[1..k -> S] : k \in 0..n}
NoDuplicates(list) == \A i, k \in 1..Len(list) : list[i] = list[k] => i = k
StoredHashes == {Str(s) : s \in BitStrings(MaxMatchLen) \ {<<>>}}

InitMatch ==
  /\ InitQueue /\ InitWait /\ InitNoLegacy /\ InitIdleVideo /\ InitIdleStore /\ InitSettings /\ InitIdleBlock
  /\ hres = NoResult
  /\ \E target \in HashValues(MaxMatchLen) :
       \/ /\ HASH_CONFIG = [HAMMING_THRESHOLD |-> HAMMING_THRESHOLD]
          /\ blockedHashes = <<>>
          /\ \E list \in SeqsUpTo(HashValues(MaxMatchLen), MaxListLen) :
               hargs = [NoArgs EXCEPT !.hash1 = target, !.hashList = list]
       \/ /\ \E t \in 0..MaxThreshold : HASH_CONFIG = [HAMMING_THRESHOLD |-> t]
          /\ blockedHashes \in {l \in SeqsUpTo(StoredHashes, MaxListLen) : NoDuplicates(l)}
          /\ hargs = [NoArgs EXCEPT !.hash1 = target]

NextMatch == CallFindMostSimilarHash \/ CallIsHashBlocked

SpecMatch == InitMatch /\ [][NextMatch]_vars

\* fingerprints: a string of length n with k ones in a row, rotated by r
OnesRun(n, k, r) == [i \in 1..n |-> IF ((i - 1 + n - r) % n) < k THEN 1 ELSE 0]
HashLength == DCT_BLOCK_SIZE * DCT_BLOCK_SIZE - 1
Fingerprints == {Str(OnesRun(HashLength, k, r)) : k \in 0..HashLength, r \in 0..MaxShift}
\* values that are no fingerprint: too short, too long, with another
\* character, empty, null, a number
Malformed ==
  {Str(OnesRun(HashLength - 1, HashLength \div 2, 0)),
   Str(OnesRun(HashLength + 1, HashLength \div 2, 0)),
   Str([OnesRun(HashLength, HashLength \div 2, 0) EXCEPT ![1] = 2]),
   Str(<<>>), Null, Num}
\* transforms: coefficient a*x + b*y + c modulo MaxCoef + 1, and one with 64
\* different coefficients
Transforms ==
  {[c \in BlockCells |-> (a * c[2] + b * c[1] + d) % (MaxCoef + 1)] :
     a \in 0..MaxCoef, b \in 0..MaxCoef, d \in 0..MaxCoef}
    \cup {[c \in BlockCells |-> DCT_BLOCK_SIZE * c[1] + c[2]]}
Sizes == {CANVAS_SIZE - 1, CANVAS_SIZE, CANVAS_SIZE + 1}
Matrices ==
  {NoMatrix} \cup [given : {TRUE}, rows : Sizes, cols : Sizes, dct : Transforms]

\* isTrivialHash and validateHash on fingerprints with every number of ones and
\* on malformed values, computePHashFromMatrix on matrices of every shape
InitFingerprint ==
  /\ InitQueue /\ InitWait /\ InitNoLegacy /\ InitIdleVideo /\ InitIdleStore /\ InitSettings /\ InitIdleBlock
  /\ HASH_CONFIG = [HAMMING_THRESHOLD |-> HAMMING_THRESHOLD]
  /\ blockedHashes = <<>>
  /\ hres = NoResult
  /\ \/ \E h \in Fingerprints \cup Malformed : hargs = [NoArgs EXCEPT !.hash1 = h]
     \/ \E m \in Matrices : hargs = [NoArgs EXCEPT !.matrix = m]

NextFingerprint == CallIsTrivialHash \/ CallValidateHash \/ CallComputePHashFromMatrix

SpecFingerprint == InitFingerprint /\ [][NextFingerprint]_vars

\* the store under calls of VideoBlocker (two at a time) and the options page
\* StorageManager.initialize has loaded the list into the cache and
\* VideoBlocker.initialize has built blockedHashes from it
InitStore ==
  /\ InitQueue /\ InitWait /\ InitNoLegacy /\ InitIdleVideo /\ InitSettings /\ InitIdleBlock
  /\ HASH_CONFIG = [HAMMING_THRESHOLD |-> HAMMING_THRESHOLD]
  /\ hargs = NoArgs
  /\ hres = NoResult
  /\ store \in {l \in SeqsUpTo(Hashes, Cardinality(Hashes)) : NoDuplicates(l)}
  /\ cache = store
  /\ blockedHashes = store
  /\ ops = [o \in OpSlots |-> IdleOp]
  /\ events = <<>>
  /\ opsStarted = 0
  /\ saved = NothingSaved

NextStore ==
  \/ StoreStep /\ UNCHANGED <<qvars, wfc, vvars, HASH_CONFIG, hargs, hres, tvars, bv, legacy>>
  \/ (\E h \in Hashes : ExternalRemove(h))
       /\ UNCHANGED <<qvars, wfc, vvars, HASH_CONFIG, hargs, hres, tvars, bv, legacy>>
  \/ ExternalClear /\ UNCHANGED <<qvars, wfc, vvars, HASH_CONFIG, hargs, hres, tvars, bv, legacy>>

SpecStore == InitStore /\ [][NextStore]_vars

\* the same calls with a storage that may fail at every get and set; what the
\* method of VideoBlocker returned is kept in hres (fn is the StorageManager
\* method it called: save for addBlockedHash and blockVideo)
ReturnedFrom(op, value) == [NoResult EXCEPT !.fn = op.fn, !.returned = value]

NextFail ==
  \/ (\E o \in OpSlots, h \in Hashes, b \in BOOLEAN : StartSave(o, h, b))
       /\ UNCHANGED <<qvars, wfc, vvars, HASH_CONFIG, hargs, hres, tvars, bv, legacy>>
  \/ (\E o \in OpSlots, h \in Hashes : StartRemove(o, h))
       /\ UNCHANGED <<qvars, wfc, vvars, HASH_CONFIG, hargs, hres, tvars, bv, legacy>>
  \/ (\E o \in OpSlots : StartClear(o))
       /\ UNCHANGED <<qvars, wfc, vvars, HASH_CONFIG, hargs, hres, tvars, bv, legacy>>
  \/ (\E o \in OpSlots :
         /\ GetDone(o)
         /\ hres' = IF ops'[o].pc = "idle" THEN ReturnedFrom(ops[o], FALSE) ELSE hres)
       /\ UNCHANGED <<qvars, wfc, vvars, HASH_CONFIG, hargs, tvars, bv, legacy>>
  \/ (\E o \in OpSlots : GetFailed(o) /\ hres' = ReturnedFrom(ops[o], FALSE))
       /\ UNCHANGED <<qvars, wfc, vvars, HASH_CONFIG, hargs, tvars, bv, legacy>>
  \/ (\E o \in OpSlots : SetFailed(o) /\ hres' = ReturnedFrom(ops[o], FALSE))
       /\ UNCHANGED <<qvars, wfc, vvars, HASH_CONFIG, hargs, tvars, bv, legacy>>
  \/ (\E o \in OpSlots : WriteApplied(o))
       /\ UNCHANGED <<qvars, wfc, vvars, HASH_CONFIG, hargs, hres, tvars, bv, legacy>>
  \/ (\E o \in OpSlots : SetDone(o))
       /\ UNCHANGED <<qvars, wfc, vvars, HASH_CONFIG, hargs, hres, tvars, bv, legacy>>
  \/ (\E o \in OpSlots : StatsDone(o) /\ hres' = ReturnedFrom(ops[o], TRUE))
       /\ UNCHANGED <<qvars, wfc, vvars, HASH_CONFIG, hargs, tvars, bv, legacy>>
  \/ DeliverEvent /\ UNCHANGED <<qvars, wfc, vvars, HASH_CONFIG, hargs, hres, tvars, bv, legacy>>

SpecFail == InitStore /\ [][NextFail]_vars

\* addBlockedHash with fingerprints at the trivial boundary and malformed
\* values, blockVideo with the hash of a matrix of zeros and of a matrix with
\* a pattern
AddArgs ==
  {Str(OnesRun(HashLength, k, 0)) :
     k \in {MIN_ONES_ZEROS, MIN_ONES_ZEROS + 1, HashLength - MIN_ONES_ZEROS}}
    \cup Malformed
VideoMatrices ==
  {[given |-> TRUE, rows |-> CANVAS_SIZE, cols |-> CANVAS_SIZE, dct |-> t] :
     t \in {[c \in BlockCells |-> 0], [c \in BlockCells |-> c[2] % (MaxCoef + 1)]}}
\* what computeMultiFramePHash hands to blockVideo for these matrices
VideoHashes == {multiFrameHash(m) : m \in VideoMatrices}

InitAdd ==
  /\ InitQueue /\ InitWait /\ InitNoLegacy /\ InitIdleVideo /\ InitIdleHash /\ InitIdleStore
  /\ InitSettings /\ InitIdleBlock

NextAdd ==
  \/ (\E o \in OpSlots, h \in AddArgs : AddBlockedHash(o, h))
       /\ UNCHANGED <<qvars, wfc, vvars, HASH_CONFIG, tvars, bv, legacy>>
  \/ (\E o \in OpSlots, h \in VideoHashes : h # Null /\ StartSave(o, h, TRUE))
       /\ UNCHANGED <<qvars, wfc, vvars, HASH_CONFIG, hargs, hres, tvars, bv, legacy>>
  \/ (\E o \in OpSlots : GetDone(o))
       /\ UNCHANGED <<qvars, wfc, vvars, HASH_CONFIG, hargs, hres, tvars, bv, legacy>>
  \/ (\E o \in OpSlots : WriteApplied(o))
       /\ UNCHANGED <<qvars, wfc, vvars, HASH_CONFIG, hargs, hres, tvars, bv, legacy>>
  \/ (\E o \in OpSlots : SetDone(o))
       /\ UNCHANGED <<qvars, wfc, vvars, HASH_CONFIG, hargs, hres, tvars, bv, legacy>>
  \/ (\E o \in OpSlots : StatsDone(o))
       /\ UNCHANGED <<qvars, wfc, vvars, HASH_CONFIG, hargs, hres, tvars, bv, legacy>>
  \/ DeliverEvent /\ UNCHANGED <<qvars, wfc, vvars, HASH_CONFIG, hargs, hres, tvars, bv, legacy>>

SpecAdd == InitAdd /\ [][NextAdd]_vars

\* blockVideo on two videos: two jobs of the queue that hash, save and hide
\* while their timers run
InitBlock ==
  /\ InitQueue /\ InitWait /\ InitNoLegacy /\ InitIdleVideo /\ InitIdleHash /\ InitIdleStore
  /\ InitSettings /\ InitIdleBlock

NextBlock ==
  \/ Enqueue(Cardinality(OpSlots), {0}, FALSE)
  \/ \E j \in OpSlots, h \in Hashes \cup {Null} : BvHashed(j, h)
  \/ \E j \in OpSlots : BvGetDone(j)
  \/ \E j \in OpSlots : BvWriteApplied(j)
  \/ \E j \in OpSlots : BvSetDone(j)
  \/ \E j \in OpSlots, article \in BOOLEAN : BvSaved(j, article)
  \/ \E j \in OpSlots : BvHideDone(j)
  \/ \E j \in OpSlots : BvReturn(j)
  \/ \E j \in OpSlots : TimerFire(j)
  \/ \E j \in OpSlots : Continue(j, FALSE)
  \/ DeliverEvent /\ UNCHANGED <<qvars, wfc, vvars, HASH_CONFIG, hargs, hres, tvars, bv, legacy>>

SpecBlock == InitBlock /\ [][NextBlock]_vars

\* the settings change while a hash at distance 2 of the only blocked hash, or
\* nearer, is looked up
InitSettingsSpec ==
  /\ InitQueue /\ InitWait /\ InitNoLegacy /\ InitIdleVideo /\ InitIdleStore /\ InitSettings /\ InitIdleBlock
  /\ HASH_CONFIG = [HAMMING_THRESHOLD |-> HAMMING_THRESHOLD]
  /\ blockedHashes = <<Str(<<1, 1>>)>>
  /\ hargs \in {[NoArgs EXCEPT !.hash1 = Str(s)] : s \in BitStrings(MaxMatchLen) \ {<<>>}}
  /\ hres = NoResult

NextSettings ==
  \/ SettingsStep /\ UNCHANGED <<qvars, wfc, vvars, blockedHashes, hargs, hres, svars, bv, legacy>>
  \/ CallIsHashBlocked

SpecSettings == InitSettingsSpec /\ [][NextSettings]_vars

\* ------------------------------------------------------------------ claims
ActiveCount == Cardinality(activeJobs)
TimedOut(j) == outcome[j] = Rejected(JobTimeoutError)
Cleared(j) == \E reason \in ClearReasons : outcome[j] = Rejected(ClearedError(reason))
IsPending(j) == j \in PendingIds(pendingJobs)

\* C1: with maxConcurrent as constructed, activeJobs never holds more than
\* maxConcurrent jobs, whatever is enqueued and however tasks and timers end.
C1_ActiveWithinCapacity == ActiveCount <= maxConcurrent

\* the queue is full and a job waits behind it
C1_Witness ==
  /\ ActiveCount = maxConcurrent
  /\ pendingJobs # <<>>

\* C2: pendingJobs is ordered by non-increasing priority, jobs of equal priority
\* in enqueue order, and a step starts waiting jobs only from the head of the
\* list: the waiting jobs it starts are a prefix of pendingJobs, each of them
\* comes before every job that is still waiting after the step, and the jobs
\* that keep waiting keep their place.
Before(a, b) == a.priority > b.priority \/ (a.priority = b.priority /\ a.id < b.id)

PendingSorted ==
  \A i, k \in 1..Len(pendingJobs) : i < k => Before(pendingJobs[i], pendingJobs[k])

AdmittedFromHead ==
  LET n == Len(pendingJobs)
      startedAt == {i \in 1..n : starts'[pendingJobs[i].id] > starts[pendingJobs[i].id]}
  IN /\ \A i \in startedAt : \A k \in 1..i : k \in startedAt
     /\ \A i \in startedAt : \A k \in 1..Len(pendingJobs') :
          Before(pendingJobs[i], pendingJobs'[k])

C2_PriorityOrder == []PendingSorted /\ [][AdmittedFromHead]_vars

\* jobs 2..5 were enqueued with priorities 1, 5, 1, 3 while job 1 held the only
\* slot: they wait in the order 5, 3, 1, 1
C2_Witness ==
  /\ activeJobs = {1}
  /\ pendingJobs = << [id |-> 3, priority |-> 5], [id |-> 5, priority |-> 3],
                      [id |-> 2, priority |-> 1], [id |-> 4, priority |-> 1] >>

\* C3: job.resolve / job.reject is called at most once per job and exactly once
\* for a job whose executeJob has returned; the outcome is that of the event that
\* came first: the task's result, the task's error, or 'Job timeout', which is
\* no task error.
C3_FirstEventDecides ==
  /\ JobTimeoutError \notin TaskErrors
  /\ \A j \in Jobs :
       /\ settles[j] <= 1
       /\ exec[j] = "returned" =>
            /\ settles[j] = 1
            /\ firstEvent[j] # "none"
            /\ firstEvent[j] = "task" /\ task[j].st = "resolved" =>
                 outcome[j] = Resolved(task[j].v)
            /\ firstEvent[j] = "task" /\ task[j].st = "threw" =>
                 outcome[j] = Rejected(task[j].v)
            /\ firstEvent[j] = "timer" => TimedOut(j)

\* a job resolved, a job failed with its task's error, and a job timed out whose
\* task resolved afterwards
C3_Witness ==
  \E a, b, c \in Jobs :
    /\ outcome[a].st = "resolved" /\ timer[a] = "fired"
    /\ outcome[b] \in {Rejected(e) : e \in TaskErrors}
    /\ TimedOut(c) /\ task[c].st = "resolved"

\* C4: under fair timers and continuations, and with no clearQueue: a job that
\* settles while its task has not settled ends as timed out, and again and again
\* no job waits and every job enqueued so far has settled (so every waiting job
\* is eventually started and every enqueued job eventually settles, also one
\* whose task never settles).
TaskSettled(j) == task[j].st \in {"resolved", "threw"}

AllSettled == \A j \in Jobs : j <= created => outcome[j].st # "pending"

C4_TimeoutFreesSlot ==
  /\ [](\A j \in Jobs : outcome[j].st # "pending" /\ ~TaskSettled(j) => TimedOut(j))
  /\ []<>(pendingJobs = <<>> /\ AllSettled)

\* the first MAX_CONCURRENT jobs timed out with their tasks still running, and
\* the job enqueued after them has settled
C4_Witness ==
  /\ \A j \in 1..MAX_CONCURRENT : TimedOut(j) /\ task[j].st = "running"
  /\ outcome[MAX_CONCURRENT + 1].st # "pending"

\* C5: a job that has settled is not in activeJobs, and the step in which
\* executeJob settles a job ends with the job out of activeJobs and with no job
\* waiting while a slot is free.
SettledByExecute(j) ==
  outcome[j].st = "pending" /\ outcome'[j].st # "pending" /\ starts'[j] > 0

C5_SettleReleasesAndAdmits ==
  /\ [](\A j \in Jobs : outcome[j].st # "pending" => j \notin activeJobs)
  /\ [][\A j \in Jobs : SettledByExecute(j) =>
          /\ j \notin activeJobs'
          /\ pendingJobs' = <<>> \/ Cardinality(activeJobs') >= maxConcurrent']_vars

\* a job timed out, a job's task failed, and the job that had to wait for a
\* slot is running
C5_Witness ==
  /\ MAX_CONCURRENT + 1 \in activeJobs
  /\ \E a, b \in 1..MAX_CONCURRENT :
       TimedOut(a) /\ outcome[b] \in {Rejected(e) : e \in TaskErrors}

\* C6: clearQueue(reason) rejects each pending job with 'Queue cleared: <reason>',
\* which is neither a task error nor the timeout error, empties pendingJobs and
\* leaves activeJobs and everything about the active jobs as it was; a cleared
\* job is never started.
JobState(j) == <<exec[j], task[j], timer[j], race[j], outcome[j], starts[j]>>

ClearQueuePost(reason) ==
  /\ \A j \in PendingIds(pendingJobs) : outcome'[j] = Rejected(ClearedError(reason))
  /\ pendingJobs' = <<>>
  /\ activeJobs' = activeJobs
  /\ \A j \in Jobs \ PendingIds(pendingJobs) : JobState(j)' = JobState(j)

C6_ClearRejectsPending ==
  /\ \A reason \in ClearReasons : ClearedError(reason) \notin TaskErrors \cup {JobTimeoutError}
  /\ [](\A j \in Jobs : Cleared(j) =>
          starts[j] = 0 /\ task[j].st = "idle" /\ j \notin activeJobs /\ ~IsPending(j))
  /\ [][\A reason \in ClearReasons : ClearQueueWith(reason) => ClearQueuePost(reason)]_vars

\* the waiting job was cleared and a job that was active at the time resolved later
C6_Witness ==
  /\ Cleared(MAX_CONCURRENT + 1)
  /\ \E j \in 1..MAX_CONCURRENT : outcome[j].st = "resolved"
  /\ \E j \in 1..MAX_CONCURRENT : j \in activeJobs

\* C7: setMaxConcurrent(n) with n outside [1, 10] changes nothing; with n inside
\* it sets maxConcurrent to n and starts pending jobs from the head of the list
\* until activeJobs has n jobs or no job waits.
Prefix(list, k) == {list[i].id : i \in 1..k}

SetMaxPost(max) ==
  IF max < 1 \/ max > MaxConcurrentLimit
  THEN UNCHANGED <<maxConcurrent, activeJobs, pendingJobs>>
  ELSE /\ maxConcurrent' = max
       /\ \E k \in 0..Len(pendingJobs) :
            /\ pendingJobs' = SubSeq(pendingJobs, k + 1, Len(pendingJobs))
            /\ activeJobs' = activeJobs \cup Prefix(pendingJobs, k)
            /\ k > 0 => Cardinality(activeJobs') <= max
       /\ pendingJobs' = <<>> \/ Cardinality(activeJobs') >= max

C7_SetMaxConcurrent ==
  [][\A max \in MaxArgs : SetMaxConcurrentTo(max) => SetMaxPost(max)]_vars

\* three jobs were enqueued at capacity 1 and none has finished: raising the
\* capacity to 2 started the head of the list (job 3, of higher priority)
C7_Witness ==
  /\ maxConcurrent = 2
  /\ created = 3
  /\ activeJobs = {1, 3}
  /\ PendingIds(pendingJobs) = {2}

\* C8: the promise of waitForCompletion resolves only in a state where
\* activeJobs and pendingJobs are both empty, and if the queue is empty from
\* some moment on, a caller that is polling is eventually resolved.
C8_WaitForCompletion ==
  /\ [][wfc.st # "resolved" /\ wfc'.st = "resolved" => QueueEmpty /\ QueueEmpty']_vars
  /\ <>[]QueueEmpty => [](wfc.st = "polling" => <>(wfc.st = "resolved"))

\* the caller found the queue busy at least twice, every job has been enqueued
\* since, and the promise has resolved
C8_Witness ==
  /\ wfc = [st |-> "resolved", rearmed |-> TRUE]
  /\ created = MaxWaitJobs

\* C9: in the step in which a call of computeMultiFramePHash returns, whatever
\* it returns, video.muted gets the value it had when the call was made.
Returns(r) == runs[r].pc # "done" /\ runs'[r].pc = "done"

C9_MutedRestored ==
  [][\A r \in Runs : Returns(r) => muted' = runs'[r].mutedAtStart]_vars

\* one call returned a hash and one returned null on its last attempt; both had
\* muted the video, which was and is not muted
C9_Witness ==
  /\ muted = FALSE
  /\ \E a, b \in Runs :
       /\ runs[a].pc = "done" /\ runs[a].result = "good"
       /\ runs[b].pc = "done" /\ runs[b].result = "null" /\ runs[b].attempt = RetryCount
       /\ \A r \in {a, b} : runs[r].prepared /\ ~runs[r].mutedAtStart

\* C10: when captureAndAverageFrames returns it has tried frameCount captures;
\* its result is null exactly when none of them succeeded, and otherwise it is,
\* cell by cell, the mean of the captured matrices rounded half up.
Captured(frames) == SelectSeq(frames, LAMBDA f : f # NullMatrix)

IsRoundedMean(a, ms, c) ==
  LET n == Len(ms)
      sum == SumCell(ms, c, n)
  IN 2 * n * a <= 2 * sum + n /\ 2 * sum + n < 2 * n * (a + 1)

C10_NullIffNoFrame ==
  \A r \in Runs : runs[r].pc = "captured" =>
    LET ok == Captured(runs[r].frames)
        avg == runs[r].averageMatrix
    IN /\ Len(runs[r].frames) = runs[r].frameCount
       /\ avg = NullMatrix <=> ok = <<>>
       /\ ok # <<>> => /\ Len(avg) = MatCells
                       /\ \A c \in 1..MatCells : IsRoundedMean(avg[c], ok, c)

\* one capture failed and two different matrices were captured and averaged
C10_Witness ==
  \E r \in Runs :
    /\ runs[r].pc = "captured"
    /\ NullMatrix \in Range(runs[r].frames)
    /\ Len(runs[r].matrices) = 2
    /\ runs[r].matrices[1] # runs[r].matrices[2]
    /\ runs[r].averageMatrix # NullMatrix

\* C11: a call of computeMultiFramePHash never ends by a throw; it returns null
\* or a hash that passed the quality test, and on the last attempt every failure
\* (no frame captured, no hash, an invalid video) and a trivial hash end the
\* call with null.
LastAttemptEnds(r) ==
  LET failing == runs[r].pc = "captured" /\ runs[r].attempt = RetryCount /\ runs'[r] # runs[r]
  IN failing =>
       /\ Returns(r)
       /\ runs[r].averageMatrix = NullMatrix => runs'[r].result = "null"

C11_NeverThrows ==
  /\ [](\A r \in Runs : /\ runs[r].pc # "threw"
                        /\ runs[r].pc = "done" => runs[r].result \in {"null", "good"})
  /\ [][\A r \in Runs : LastAttemptEnds(r)]_vars

\* a call whose last attempt captured no frame returned null, after a call that
\* was given up on an invalid video
C11_Witness ==
  \E a, b \in Runs :
    /\ runs[a].pc = "done" /\ runs[a].result = "null" /\ runs[a].attempt = RetryCount
    /\ runs[a].prepared
    /\ runs[b].pc = "done" /\ runs[b].result = "null" /\ ~runs[b].prepared

\* C12: an attempt is only begun with attempt <= retryCount, and under fair
\* timers every call returns, also when no seeked event ever comes: again and
\* again no call is in progress.
C12_Terminates ==
  /\ [](\A r \in Runs : runs[r].attempt <= RetryCount)
  /\ []<>(\A r \in Runs : runs[r].pc \in {"idle", "done"})

\* a call has returned a hash at once and a later call is waiting for its seek
\* on its last attempt
C12_Witness ==
  \E a, b \in Runs :
    /\ runs[a].pc = "done" /\ runs[a].result = "good" /\ runs[a].attempt = 0
    /\ runs[b].pc = "seeking" /\ runs[b].attempt = RetryCount

\* the distance as spec.md defines it: the differing positions of the common
\* prefix plus the difference of the lengths; Infinity when a value is no hash
IsHash(v) == v.type = "string" /\ v.s # <<>>

DiffPositions(s1, s2) == {i \in 1..Min(Len(s1), Len(s2)) : s1[i] # s2[i]}

Distance(v1, v2) ==
  IF IsHash(v1) /\ IsHash(v2)
  THEN Cardinality(DiffPositions(v1.s, v2.s))
       + (Max(Len(v1.s), Len(v2.s)) - Min(Len(v1.s), Len(v2.s)))
  ELSE Infinity

\* C16: isHashBlocked(h) is true exactly when some hash of blockedHashes is
\* within the current threshold of h, and false when blockedHashes is empty.
C16_BlockedIffWithinThreshold ==
  hres.fn = "isHashBlocked" =>
    /\ hres.similar <=> \E i \in 1..Len(blockedHashes) :
                          Distance(hargs.hash1, blockedHashes[i]) <= HASH_CONFIG.HAMMING_THRESHOLD
    /\ blockedHashes = <<>> => ~hres.similar

\* a hash that is not in the registry is blocked by a hash one bit away, the
\* threshold being 1
C16_Witness ==
  /\ hres.fn = "isHashBlocked" /\ hres.similar
  /\ HASH_CONFIG.HAMMING_THRESHOLD = 1
  /\ hargs.hash1 = Str(<<0, 1>>)
  /\ blockedHashes = <<Str(<<1, 0>>), Str(<<1, 1>>)>>

\* C17: for non-empty bit strings hammingDistance is the number of differing
\* positions of the common prefix plus the difference of the lengths, and 0 for
\* a string and itself.
C17_HammingDistance ==
  hres.fn = "hammingDistance" /\ IsHash(hargs.hash1) /\ IsHash(hargs.hash2) =>
    /\ hres.distance = Distance(hargs.hash1, hargs.hash2)
    /\ hargs.hash1 = hargs.hash2 => hres.distance = 0

\* 011 and 11: one differing position and one position more
C17_Witness ==
  /\ hres.fn = "hammingDistance"
  /\ hargs.hash1 = Str(<<0, 1, 1>>) /\ hargs.hash2 = Str(<<1, 1>>)
  /\ hres.distance = 2

\* C18: hammingDistance(a, b) = hammingDistance(b, a) for all values a and b,
\* strings of any length, the empty string, null and non-strings.
C18_Symmetric ==
  hres.fn = "hammingDistance" => hres.distance = hammingDistance(hargs.hash2, hargs.hash1)

\* a short string against a longer one
C18_Witness ==
  /\ hres.fn = "hammingDistance"
  /\ hargs.hash1 = Str(<<0>>) /\ hargs.hash2 = Str(<<1, 0, 1>>)
  /\ hres.distance = 3

\* C19: areHashesSimilar(a, b, t) is true exactly when the distance of a and b
\* is at most t, and then it is true for every larger threshold.
C19_SimilarIffWithin ==
  hres.fn = "areHashesSimilar" =>
    /\ hres.similar <=> Distance(hargs.hash1, hargs.hash2) <= hargs.threshold
    /\ hres.similar =>
         \A t \in hargs.threshold..(MaxThreshold + 1) :
           areHashesSimilar(hargs.hash1, hargs.hash2, t)

\* the distance is exactly the threshold
C19_Witness ==
  /\ hres.fn = "areHashesSimilar" /\ hres.similar
  /\ hargs.hash1 = Str(<<0, 1>>) /\ hargs.hash2 = Str(<<1, 1, 0>>)
  /\ hargs.threshold = 2

\* C20: findMostSimilarHash returns null for an empty list; for a target that
\* is a hash and a list with a hash in it, it returns the first candidate at
\* the minimum distance, with that distance; null in every other case (a
\* target that is no hash, or no hash in the list).
FirstNearest(target, list) ==
  CHOOSE i \in 1..Len(list) :
    /\ \A k \in 1..Len(list) : Distance(target, list[i]) <= Distance(target, list[k])
    /\ \A k \in 1..(i - 1) : Distance(target, list[k]) > Distance(target, list[i])

C20_FirstMinimum ==
  hres.fn = "findMostSimilarHash" =>
    LET target == hargs.hash1
        list == hargs.hashList
    IN IF IsHash(target) /\ \E i \in 1..Len(list) : IsHash(list[i])
       THEN LET i == FirstNearest(target, list)
            IN hres.bestMatch = [hash |-> list[i], distance |-> Distance(target, list[i])]
       ELSE hres.bestMatch = NoMatch

\* two different candidates at distance 1: the first is returned
C20_Witness ==
  /\ hres.fn = "findMostSimilarHash"
  /\ hargs.hash1 = Str(<<0, 1>>)
  /\ hargs.hashList = <<Str(<<1, 1>>), Str(<<0, 0>>)>>
  /\ hres.bestMatch = [hash |-> Str(<<1, 1>>), distance |-> 1]

\* C13: the store never holds two items with the same hash, whatever the
\* interleaving of saveBlockedHash, removeBlockedHash and clearAllHashes
C13_StoreHasNoDuplicates == NoDuplicates(store)

\* two saves of the same hash were in flight together, both found it missing,
\* and both have written
C13_Witness ==
  /\ \A o \in OpSlots : ops[o].fn = "save" /\ ops[o].pc \in {"written", "stats"}
  /\ ops[1].hash = ops[2].hash
  /\ store = <<ops[1].hash>>

\* C14: with no storage operation in flight and no change event under way, the
\* hashes of VideoBlocker.blockedHashes are those of the store, and so are the
\* hashes of the StorageManager cache, each of them once
C14_RegistrySynchronized ==
  ((\A o \in OpSlots : ops[o].pc = "idle") /\ events = <<>>) =>
    /\ Range(blockedHashes) = Range(store)
    /\ Range(cache) = Range(store)
    /\ NoDuplicates(cache)

\* every change of the stored settings has reached loadSettings, and every
\* loadSettings has completed
SettingsLoaded == settingsEvents = 0 /\ loads = 0

\* C15: once the stored settings have changed to sensitivity s and loadSettings
\* has completed, HASH_CONFIG.HAMMING_THRESHOLD is s and a call of isHashBlocked
\* (areHashesSimilar without a threshold) decides with s
C15_ThresholdFollowsSettings ==
  /\ []((SettingsLoaded /\ storedSettings # <<>>) =>
          HASH_CONFIG.HAMMING_THRESHOLD = storedSettings[1])
  /\ [][(SettingsLoaded /\ storedSettings # <<>>
          /\ hres.fn = "none" /\ hres'.fn = "isHashBlocked") =>
        (hres'.similar <=> Distance(hargs.hash1, blockedHashes[1]) <= storedSettings[1])]_vars

\* the sensitivity was lowered to 1 and loaded, and a hash at distance 2 of the
\* blocked one is no longer taken for blocked
C15_Witness ==
  /\ SettingsLoaded
  /\ storedSettings = <<1>>
  /\ HASH_CONFIG.HAMMING_THRESHOLD = 1
  /\ hargs.hash1 = Str(<<0, 0>>)
  /\ hres.fn = "isHashBlocked"
  /\ ~hres.similar

Ones(h) == Cardinality({i \in 1..Len(h.s) : h.s[i] = 1})
Zeros(h) == Cardinality({i \in 1..Len(h.s) : h.s[i] = 0})

\* C21: for a 63-bit fingerprint h, isTrivialHash(h) is true exactly when h has
\* at most MIN_ONES_ZEROS ones or at most MIN_ONES_ZEROS zeros: true with
\* exactly MIN_ONES_ZEROS ones, false with MIN_ONES_ZEROS + 1 ones
C21_TrivialBoundary ==
  (hres.fn = "isTrivialHash" /\ hargs.hash1 \in Fingerprints) =>
    /\ hres.trivial <=>
         (Ones(hargs.hash1) <= MIN_ONES_ZEROS \/ Zeros(hargs.hash1) <= MIN_ONES_ZEROS)
    /\ Ones(hargs.hash1) = MIN_ONES_ZEROS => hres.trivial
    /\ Zeros(hargs.hash1) = MIN_ONES_ZEROS => hres.trivial
    /\ Ones(hargs.hash1) = MIN_ONES_ZEROS + 1 => ~hres.trivial

\* a fingerprint with exactly MIN_ONES_ZEROS ones was found trivial
C21_Witness ==
  /\ hres.fn = "isTrivialHash"
  /\ hargs.hash1 \in Fingerprints
  /\ Ones(hargs.hash1) = MIN_ONES_ZEROS
  /\ hres.trivial

\* the coefficient that bit k of a fingerprint stands for: row k \div 8, column
\* k % 8 of the transform, so that (0,0) has no bit
Coef(k) == dct2D(hargs.matrix)[<<k \div DCT_BLOCK_SIZE, k % DCT_BLOCK_SIZE>>]
\* above the median of 63 values: above at least 32 of them
AboveMedian(k) == Cardinality({j \in 1..HashLength : Coef(j) < Coef(k)}) > HashLength \div 2

\* C22: every result of computePHashFromMatrix that is not null is a string of
\* exactly 63 characters 0 and 1, bit k telling whether the coefficient at row
\* k \div 8, column k % 8 of the top-left block is above the median
C22_SixtyThreeBits ==
  (hres.fn = "computePHashFromMatrix" /\ hres.hash # Null) =>
    /\ hres.hash.type = "string"
    /\ Len(hres.hash.s) = 63
    /\ \A k \in 1..Len(hres.hash.s) :
         /\ hres.hash.s[k] \in Bits
         /\ hres.hash.s[k] = 1 <=> AboveMedian(k)

\* a 32x32 matrix whose transform grows along the rows gave a fingerprint that
\* has ones and zeros
C22_Witness ==
  /\ hres.fn = "computePHashFromMatrix"
  /\ hargs.matrix.rows = CANVAS_SIZE /\ hargs.matrix.cols = CANVAS_SIZE
  /\ hargs.matrix.dct = [c \in BlockCells |-> c[2] % (MaxCoef + 1)]
  /\ hres.hash # Null
  /\ Ones(hres.hash) > 0 /\ Zeros(hres.hash) > 0

\* C23: when the 63 coefficients are all equal, as for a matrix of zeros,
\* computePHashFromMatrix returns the fingerprint of 63 zeros, and
\* isTrivialHash is true of it
C23_EqualCoefficientsGiveZeros ==
  (/\ hres.fn = "computePHashFromMatrix"
   /\ hargs.matrix.given /\ hargs.matrix.rows = CANVAS_SIZE
   /\ \A j, k \in 1..HashLength : Coef(j) = Coef(k)) =>
    /\ hres.hash = Str([k \in 1..HashLength |-> 0])
    /\ isTrivialHash(hres.hash)

\* the transform of a 32x32 matrix of zeros is all zeros: 63 zeros came out
C23_Witness ==
  /\ hres.fn = "computePHashFromMatrix"
  /\ hargs.matrix.rows = CANVAS_SIZE /\ hargs.matrix.cols = CANVAS_SIZE
  /\ hargs.matrix.dct = [c \in BlockCells |-> 0]
  /\ hres.hash = Str([k \in 1..HashLength |-> 0])

\* C30: a hash whose saveBlockedHash returned true is in the store as long as
\* no removal of it and no removal of all has been asked for, whatever the
\* interleaving of the saves
C30_NoSavedHashLost ==
  ~saved.cleared => \A h \in saved.returned \ saved.released : h \in Range(store)

\* C25: activeJobs never holds more jobs than the current maxConcurrent, under
\* enqueue, settlement, clearQueue and setMaxConcurrent, also when
\* setMaxConcurrent lowers the capacity while jobs are running
C25_ActiveWithinCurrentCapacity == Cardinality(activeJobs) <= maxConcurrent

\* where a job is: 0 not created, 1 queued, 2 running, 3 settled
Stage(j, act, pend, out) ==
  IF out[j].st # "pending" THEN 3
  ELSE IF j \in act THEN 2
  ELSE IF j \in PendingIds(pend) THEN 1
  ELSE 0

\* C26: a job is queued, then running, then settled, or queued and then
\* rejected by clearQueue, and never goes back: it is in at most one of
\* pendingJobs and activeJobs (and once in pendingJobs), its task is started at
\* most once, and once settled it is in neither
C26_JobLifecycle ==
  /\ [](\A j \in Jobs :
          /\ ~(IsPending(j) /\ j \in activeJobs)
          /\ Cardinality({i \in 1..Len(pendingJobs) : pendingJobs[i].id = j}) <= 1
          /\ starts[j] <= 1
          /\ outcome[j].st # "pending" => ~IsPending(j) /\ j \notin activeJobs
          /\ j \in activeJobs => starts[j] = 1
          /\ IsPending(j) => starts[j] = 0
          /\ j <= created => IsPending(j) \/ j \in activeJobs \/ outcome[j].st # "pending")
  /\ [][\A j \in Jobs :
          Stage(j, activeJobs', pendingJobs', outcome') >=
            Stage(j, activeJobs, pendingJobs, outcome)]_vars

\* one job ran and completed, one is running, and one was rejected by
\* clearQueue without having been started
C26_Witness ==
  /\ \E j \in Jobs : outcome[j].st = "resolved" /\ starts[j] = 1 /\ j \notin activeJobs
  /\ \E j \in Jobs : j \in activeJobs /\ outcome[j].st = "pending"
  /\ \E j \in Jobs : outcome[j].st = "rejected" /\ starts[j] = 0

\* the task of job j ends in this step
TaskEnds(j) == task[j].st = "running" /\ task'[j].st # "running"

\* C27: the task of a job that timed out goes on, and when it completes or
\* fails later nothing of the queue changes: not the job's outcome, not the
\* stats, not activeJobs or pendingJobs; executeJob is not resumed for it, so
\* the job is settled once and its slot released once
C27_AbandonedTaskHasNoEffect ==
  /\ [][\A j \in Jobs :
          (TimedOut(j) /\ TaskEnds(j)) =>
            UNCHANGED <<outcome, stats, activeJobs, pendingJobs, settles, exec>>]_vars
  /\ [][\A j \in Jobs : exec[j] = "returned" => exec'[j] = "returned"]_vars
  /\ [](\A j \in Jobs : TimedOut(j) => settles[j] = 1 /\ j \notin activeJobs)

\* a job timed out and its task completed afterwards
C27_Witness ==
  \E j \in Jobs :
    /\ TimedOut(j)
    /\ firstEvent[j] = "timer"
    /\ task[j].st = "resolved"
    /\ settles[j] = 1

\* C28: a blockVideo job whose promise was rejected for the timeout has put no
\* hash in the store or in blockedHashes and has hidden no article, and does
\* none of it afterwards
C28_AbandonedRunHarmless ==
  \A j \in OpSlots : TimedOut(j) => ~bv[j].wrote /\ ~bv[j].added /\ ~bv[j].hid

\* a string of 63 characters 0 and 1
WellFormed(h) ==
  /\ h.type = "string"
  /\ Len(h.s) = 63
  /\ \A i \in 1..Len(h.s) : h.s[i] \in Bits
Balanced(h) == Ones(h) > MIN_ONES_ZEROS /\ Zeros(h) > MIN_ONES_ZEROS

\* C29: every hash that blockVideo or addBlockedHash has put in the store or in
\* blockedHashes has more than MIN_ONES_ZEROS ones and more than
\* MIN_ONES_ZEROS zeros
C29_NoTrivialHashStored ==
  \A h \in Range(store) \cup Range(blockedHashes) : h.type = "string" /\ Balanced(h)

\* addBlockedHash was refused a hash, and two hashes are stored: one with
\* MIN_ONES_ZEROS + 1 ones, and the hash blockVideo made of the pattern
C29_Witness ==
  /\ hres.fn = "addBlockedHash"
  /\ Str(OnesRun(HashLength, MIN_ONES_ZEROS + 1, 0)) \in Range(store)
  /\ \E h \in Range(store) : Ones(h) > MIN_ONES_ZEROS + 1 /\ h \notin AddArgs
  /\ Range(blockedHashes) = Range(store)

\* addBlockedHash(h) for an h that is no string of 63 characters 0 and 1, or
\* that is trivial, returns false with the store, blockedHashes and the calls
\* in flight as they were, and no such h is ever stored
AddRejectsInvalid ==
  /\ [][\A o \in OpSlots, h \in AddArgs :
          (AddBlockedHash(o, h) /\ ~(WellFormed(h) /\ Balanced(h))) =>
            /\ hres'.fn = "addBlockedHash"
            /\ UNCHANGED <<store, cache, blockedHashes, ops>>]_vars
  /\ [](\A h \in Range(store) \cup Range(blockedHashes) : WellFormed(h) /\ Balanced(h))

\* computePHashFromMatrix returns null for a matrix that is not 32x32
NoFingerprintOffSize ==
  (/\ hres.fn = "computePHashFromMatrix"
   /\ ~(hargs.matrix.given /\ hargs.matrix.rows = 32 /\ hargs.matrix.cols = 32)) =>
    hres.hash = Null

\* C24: invalid input is refused: addBlockedHash(h) with h not a string of 63
\* characters 0 and 1, or trivial, returns false and leaves the store and
\* blockedHashes as they were, and computePHashFromMatrix gives no fingerprint
\* for a matrix that is not 32x32
C24_InvalidInputFailsFast == AddRejectsInvalid /\ []NoFingerprintOffSize

\* C35: the statistics of the queue are conserved: totalJobs is the sum of
\* completedJobs, failedJobs, the active and the waiting jobs, queuedJobs is
\* the number of waiting jobs, and a settled job is counted once, as completed
\* when its promise resolved and as failed when it rejected (by its task, by
\* the timeout or by clearQueue)
C35_StatsConserved ==
  /\ stats.totalJobs = stats.completedJobs + stats.failedJobs
                         + Cardinality(activeJobs) + Len(pendingJobs)
  /\ stats.queuedJobs = Len(pendingJobs)
  /\ stats.completedJobs = Cardinality({j \in Jobs : outcome[j].st = "resolved"})
  /\ stats.failedJobs = Cardinality({j \in Jobs : outcome[j].st = "rejected"})
  /\ \A j \in Jobs : settles[j] <= 1

\* one job completed, one timed out, one was cleared and one is running
C35_Witness ==
  /\ stats.completedJobs = 1
  /\ stats.failedJobs = 2
  /\ \E j \in Jobs : TimedOut(j)
  /\ \E j \in Jobs : Cleared(j)
  /\ Cardinality(activeJobs) = 1

\* C36: no job waits while a slot is free: when pendingJobs is not empty,
\* activeJobs holds at least maxConcurrent jobs, after enqueue, settlements,
\* clearQueue and setMaxConcurrent
C36_WorkConserving ==
  Len(pendingJobs) > 0 => Cardinality(activeJobs) >= maxConcurrent

\* the capacity was raised to 2 with jobs waiting: two run, and a job still waits
C36_Witness ==
  /\ maxConcurrent = 2
  /\ Cardinality(activeJobs) = 2
  /\ Len(pendingJobs) > 0
  /\ \E j \in activeJobs : j > MAX_CONCURRENT

\* C40: a fingerprint made by computePHashFromMatrix has at most 31 ones and
\* at least 32 zeros, so isTrivialHash can reject it for too few ones only
C40_AtMostThirtyOneOnes ==
  (hres.fn = "computePHashFromMatrix" /\ hres.hash # Null) =>
    /\ Ones(hres.hash) <= 31
    /\ Zeros(hres.hash) >= 32
    /\ Zeros(hres.hash) > MIN_ONES_ZEROS
    /\ isTrivialHash(hres.hash) <=> Ones(hres.hash) <= MIN_ONES_ZEROS

\* 63 different coefficients: the 31 above the middle one give the ones
C40_Witness ==
  /\ hres.fn = "computePHashFromMatrix"
  /\ hres.hash # Null
  /\ Ones(hres.hash) = 31
  /\ \A k \in 1..(HashLength - 1) : Coef(k) # Coef(k + 1)

\* video.muted before the first call: a call that found the video not muted
\* was made before any call muted it
MutedBeforeFirst == \A r \in Runs : runs[r].mutedAtStart

\* C31: when calls of computeMultiFramePHash on one video overlap, video.muted
\* has, after all of them have returned, the value it had before the first
C31_MutedRestoredAfterOverlap ==
  (\A r \in Runs : runs[r].pc = "done") => muted = MutedBeforeFirst

\* the call in slot o ends in this step
CallEnds(o) == ops[o].pc # "idle" /\ ops'[o].pc = "idle"
\* the call in slot o ends on a failed storage.get or storage.set, or on a
\* StorageManager method that reports false after its storage.get
StorageSaysNo(o) == ops[o].pc \in {"get", "set"} /\ ops'[o].pc = "idle"

\* C37: when the storage operation fails or the StorageManager method reports
\* false, the method of VideoBlocker returns false and blockedHashes is as it
\* was; no call that returns false changes blockedHashes
C37_FailureLeavesRegistry ==
  [][\A o \in OpSlots :
       /\ StorageSaysNo(o) => hres'.fn = ops[o].fn /\ ~hres'.returned
       /\ (CallEnds(o) /\ ~hres'.returned) => blockedHashes' = blockedHashes]_vars

\* two calls have ended with nothing written, the last one a removal that
\* returned false: the registry still holds the hash whose removal was asked for
C37_Witness ==
  /\ hres.fn = "remove" /\ ~hres.returned
  /\ \A o \in OpSlots : ops[o].pc = "idle"
  /\ opsStarted = 2
  /\ Len(blockedHashes) = 1
  /\ store = blockedHashes
  /\ events = <<>>
  /\ saved.released = Range(blockedHashes)

\* the scan jobs whose body is executing: started and not yet returned (a job
\* that timed out keeps executing its body)
ScanBodies == {j \in Jobs : scan.kind[j] = "scan" /\ scan.pc[j] = "videos"}
\* the scan jobs waiting in pendingJobs or holding a slot
ScanJobsQueued ==
  {j \in Jobs : scan.kind[j] = "scan" /\ j \in activeJobs \cup PendingIds(pendingJobs)}

\* C32: there is no state in which every slot of the queue is held by a job
\* that waits for the promise of a job still in pendingJobs
C32_NoSlotWaitsForPending ==
  ~ /\ activeJobs # {}
    /\ Cardinality(activeJobs) >= maxConcurrent
    /\ \A j \in activeJobs :
          /\ scan.kind[j] = "scan"
          /\ scan.pc[j] = "videos"
          /\ scan.awaits[j] \in PendingIds(pendingJobs)

\* C33: at most one scan body executes at any time, at most one scan job is
\* pending or running, and isScanning is true exactly while a scan body executes
C33_OneScanAtATime ==
  /\ Cardinality(ScanBodies) <= 1
  /\ Cardinality(ScanJobsQueued) <= 1
  /\ scan.isScanning <=> ScanBodies # {}

\* C34: between two resets of processedVideos no video is fingerprinted by
\* more than one check job
C34_FingerprintedOnce == \A v \in Videos : scan.hashed[v] <= 1

\* C38: once cleanup() has run, no step enqueues a scan job
C38_NoScanAfterCleanup ==
  [][scan.cleaned =>
       \A j \in Jobs : scan'.kind[j] = "scan" => scan.kind[j] = "scan"]_vars

\* C39: in the legacy queue active never exceeds MAX_CONCURRENT, and every
\* enqueued task is eventually started and finished, whatever the videos do
C39_LegacyBoundedAndLive ==
  /\ [](legacy.active <= LegacyMaxConcurrent)
  /\ \A t \in LTasks : (legacy.pc[t] # "none") ~> (legacy.pc[t] = "finished")

====
